---- MODULE Spec2Model ----
(***************************************************************************)
(* Model of the self-learning correction engine of Flow                    *)
(* (flow-core/src/learning.rs), of the persistence it consumes and of the  *)
(* host boundary (flowwhispr-core/src/ffi.rs, modes.rs).                   *)
(*                                                                         *)
(* Text is a sequence of characters, a character is a one-symbol string.   *)
(* Confidences are hundredths (0.55 is 55), similarities exact rationals.  *)
(***************************************************************************)
EXTENDS Integers, Sequences, FiniteSets, TLC

VARIABLES
    corrections,     \* LearningEngine::corrections, the cache
    min_confidence,  \* LearningEngine::min_confidence, in hundredths
    store,           \* the corrections persistence holds
    last,            \* the last call of the engine: its arguments and results
    original_words,  \* align_words: its first argument
    edited_words,    \* align_words: its second argument
    orig_idx,        \* align_words: cursor into original
    edit_idx,        \* align_words: cursor into edited
    pairs,           \* align_words: the pairs pushed so far
    step,            \* align_words: the loop state before the last iteration
    before,          \* the store and cache a drawn call started from; in SpecRace
                     \* also how far its two calls got
    pc,              \* per thread: where it is in the call it is making
    lock,            \* the RwLock of corrections: its writer and its readers
    local,           \* per thread: the locals of the call it is making
    started,         \* the calls threads have started
    handle,          \* what flowwhispr_init returned: "none" before the call
    default_mode,    \* WritingModeEngine::default_mode
    app_modes,       \* WritingModeEngine::app_modes
    app_mode_store,  \* the app modes persistence holds
    cleared          \* the apps cleared by clear_mode and not set since

engine_vars == <<corrections, min_confidence, store, last>>

align_vars == <<original_words, edited_words, orig_idx, edit_idx, pairs, step>>

thread_vars == <<pc, lock, local, started>>

host_vars == <<handle, default_mode, app_modes, app_mode_store, cleared>>

vars == <<engine_vars, align_vars, before, thread_vars, host_vars>>

-----------------------------------------------------------------------------
(* Characters: char::is_uppercase, is_lowercase, is_alphabetic,            *)
(* is_whitespace, to_lowercase, to_uppercase on the alphabet of the model.  *)

LowerOf == [T |-> "t", H |-> "h", E |-> "e", W |-> "w", Y |-> "y",
            C |-> "c", A |-> "a", R |-> "r"]

UpperOf == [t |-> "T", h |-> "H", e |-> "E", w |-> "W", y |-> "Y",
            c |-> "C", a |-> "A", r |-> "R"]

is_uppercase(c) == c \in DOMAIN LowerOf

is_lowercase(c) == c \in DOMAIN UpperOf

is_alphabetic(c) == is_uppercase(c) \/ is_lowercase(c)

is_whitespace(c) == c \in {" ", "\t"}

char_to_lowercase(c) == IF c \in DOMAIN LowerOf THEN LowerOf[c] ELSE c

char_to_uppercase(c) == IF c \in DOMAIN UpperOf THEN UpperOf[c] ELSE c

(* Mutant: no lowercasing. *)
to_lowercase_Identity(s) == s

(* str::to_lowercase, str::to_uppercase: character by character. *)
to_lowercase(s) == [i \in 1..Len(s) |-> char_to_lowercase(s[i])]

to_uppercase(s) == [i \in 1..Len(s) |-> char_to_uppercase(s[i])]

(* str::eq_ignore_ascii_case: same length, equal after ASCII lowercasing. *)
eq_ignore_ascii_case(a, b) ==
    /\ Len(a) = Len(b)
    /\ \A i \in 1..Len(a) : char_to_lowercase(a[i]) = char_to_lowercase(b[i])

(* str::len: the length in bytes (every character of the alphabet is ASCII). *)
byte_len(s) == Len(s)

-----------------------------------------------------------------------------
(* Tokenizing and joining.                                                 *)

RECURSIVE SplitFrom(_, _, _, _)
SplitFrom(text, i, cur, acc) ==
    IF i > Len(text)
    THEN IF cur = <<>> THEN acc ELSE Append(acc, cur)
    ELSE IF is_whitespace(text[i])
         THEN SplitFrom(text, i + 1, <<>>, IF cur = <<>> THEN acc ELSE Append(acc, cur))
         ELSE SplitFrom(text, i + 1, Append(cur, text[i]), acc)

(* str::split_whitespace().collect(): the maximal runs of non-whitespace. *)
split_whitespace(text) == SplitFrom(text, 1, <<>>, <<>>)

RECURSIVE JoinFrom(_, _, _)
JoinFrom(words, i, acc) ==
    IF i > Len(words) THEN acc
    ELSE JoinFrom(words, i + 1, IF i = 1 THEN words[i] ELSE acc \o <<" ">> \o words[i])

(* [String]::join(" ") *)
join(words) == JoinFrom(words, 1, <<>>)

-----------------------------------------------------------------------------
(* Case matcher.                                                           *)

(* Mutant: title case upper-cases the first character and keeps the rest. *)
match_case_TitleKeepsRest(corrected, original) ==
    IF original = <<>> \/ corrected = <<>> THEN corrected
    ELSE IF is_uppercase(Head(original))
    THEN IF \A i \in 2..Len(original) :
                ~is_alphabetic(original[i]) \/ is_lowercase(original[i])
         THEN <<char_to_uppercase(Head(corrected))>> \o Tail(corrected)
         ELSE IF \A i \in 1..Len(original) :
                     ~is_alphabetic(original[i]) \/ is_uppercase(original[i])
              THEN to_uppercase(corrected) ELSE corrected
    ELSE corrected

(* learning.rs:350-392. *)
match_case(corrected, original) ==
    IF original = <<>> \/ corrected = <<>> THEN corrected
    ELSE LET first_char == Head(original)
             chars == Tail(original)
             rest_lowercase ==
                 \A i \in 1..Len(chars) :
                     ~is_alphabetic(chars[i]) \/ is_lowercase(chars[i])
             all_upper ==
                 \A i \in 1..Len(original) :
                     ~is_alphabetic(original[i]) \/ is_uppercase(original[i])
         IN IF is_uppercase(first_char)
            THEN IF rest_lowercase
                 THEN <<char_to_uppercase(Head(corrected))>>
                          \o to_lowercase(Tail(corrected))
                 ELSE IF all_upper THEN to_uppercase(corrected) ELSE corrected
            ELSE corrected

-----------------------------------------------------------------------------
(* The correction cache: a function from lowercase original to             *)
(* CachedCorrection [corrected, confidence].                               *)

EmptyCache == [k \in {} |-> [corrected |-> <<>>, confidence |-> 0]]

CachedCorrection(corrected, confidence) ==
    [corrected |-> corrected, confidence |-> confidence]

(* HashMap::insert *)
insert(cache, key, value) ==
    [k \in DOMAIN cache \cup {key} |-> IF k = key THEN value ELSE cache[k]]

(* Mutant: removing a key empties the map. *)
remove_DropsAll(cache, key) == [k \in {} |-> cache[k]]

(* HashMap::remove *)
remove(cache, key) == [k \in DOMAIN cache \ {key} |-> cache[k]]

-----------------------------------------------------------------------------
(* apply_corrections                                                       *)

(* Mutant: any cache hit is applied. *)
eligible_AnyHit(cache, min_conf, word_lower) == word_lower \in DOMAIN cache

(* The gate of learning.rs:175-176: a cache hit whose confidence clears    *)
(* the minimum.                                                            *)
eligible(cache, min_conf, word_lower) ==
    /\ word_lower \in DOMAIN cache
    /\ cache[word_lower].confidence >= min_conf

(* Mutant: the position counted from 1. *)
AppliedCorrection_OneBased(original, corrected, confidence, position) ==
    [original |-> original, corrected |-> corrected,
     confidence |-> confidence, position |-> position + 1]

AppliedCorrection(original, corrected, confidence, position) ==
    [original |-> original, corrected |-> corrected,
     confidence |-> confidence, position |-> position]

(* The loop of learning.rs:172-192; i is the 0-based index of enumerate(). *)
RECURSIVE ApplyLoop(_, _, _, _, _, _)
ApplyLoop(cache, min_conf, words, i, result_words, applied) ==
    IF i >= Len(words) THEN [result_words |-> result_words, applied |-> applied]
    ELSE LET word == words[i + 1]
             word_lower == to_lowercase(word)
         IN IF eligible(cache, min_conf, word_lower)
            THEN LET correction == cache[word_lower]
                     corrected == match_case(correction.corrected, word)
                 IN ApplyLoop(cache, min_conf, words, i + 1,
                              Append(result_words, corrected),
                              Append(applied,
                                     AppliedCorrection(word, corrected,
                                                       correction.confidence, i)))
            ELSE ApplyLoop(cache, min_conf, words, i + 1,
                           Append(result_words, word), applied)

(* Mutant: no early return for the empty cache. *)
apply_corrections_NoEmptyExit(cache, min_conf, text) ==
    LET words == split_whitespace(text)
    IN IF words = <<>> THEN [result |-> text, applied |-> <<>>]
       ELSE LET r == ApplyLoop(cache, min_conf, words, 0, <<>>, <<>>)
            IN [result |-> join(r.result_words), applied |-> r.applied]

(* Mutant: the replacements are looked up once more. *)
apply_corrections_Twice(cache, min_conf, text) ==
    IF DOMAIN cache = {} THEN [result |-> text, applied |-> <<>>]
    ELSE LET words == split_whitespace(text)
         IN IF words = <<>> THEN [result |-> text, applied |-> <<>>]
            ELSE LET r == ApplyLoop(cache, min_conf, words, 0, <<>>, <<>>)
                     r2 == ApplyLoop(cache, min_conf, r.result_words, 0, <<>>, <<>>)
                 IN [result |-> join(r2.result_words), applied |-> r.applied]

(* Mutant: the text handed back as given when nothing was applied. *)
apply_corrections_KeepText(cache, min_conf, text) ==
    LET r == ApplyLoop(cache, min_conf, split_whitespace(text), 0, <<>>, <<>>)
    IN IF DOMAIN cache = {} \/ r.applied = <<>>
       THEN [result |-> text, applied |-> <<>>]
       ELSE [result |-> join(r.result_words), applied |-> r.applied]

apply_corrections(cache, min_conf, text) ==
    IF DOMAIN cache = {} THEN [result |-> text, applied |-> <<>>]
    ELSE LET words == split_whitespace(text)
         IN IF words = <<>> THEN [result |-> text, applied |-> <<>>]
            ELSE LET r == ApplyLoop(cache, min_conf, words, 0, <<>>, <<>>)
                 IN [result |-> join(r.result_words), applied |-> r.applied]

-----------------------------------------------------------------------------
(* Similarity scorer: strsim::jaro_winkler on characters. A similarity is  *)
(* the exact rational num/den; the words of the model stay clear of the    *)
(* thresholds, where f64 rounding could decide.                            *)

Min(x, y) == IF x <= y THEN x ELSE y

Max(x, y) == IF x >= y THEN x ELSE y

Sim(num, den) == [num |-> num, den |-> den]

sim_ge(s, t) == s.num * t.den >= t.num * s.den

sim_gt(s, t) == s.num * t.den > t.num * s.den

(* The matching pass of jaro: for each character of a, in order, the first *)
(* unflagged equal character of b within search_range. Indices are 0-based *)
(* as in the crate; flags are the sets of flagged indices.                 *)
RECURSIVE JaroMatches(_, _, _, _, _, _)
JaroMatches(a, b, search_range, i, a_flags, b_flags) ==
    IF i >= Len(a) THEN [a_flags |-> a_flags, b_flags |-> b_flags]
    ELSE LET min_bound == IF i > search_range THEN i - search_range ELSE 0
             max_bound == Min(Len(b), i + search_range + 1)
             hits == {j \in min_bound..(max_bound - 1) :
                          a[i + 1] = b[j + 1] /\ j \notin b_flags}
         IN IF hits = {}
            THEN JaroMatches(a, b, search_range, i + 1, a_flags, b_flags)
            ELSE LET j == CHOOSE x \in hits : \A y \in hits : x <= y
                 IN JaroMatches(a, b, search_range, i + 1,
                                a_flags \cup {i}, b_flags \cup {j})

(* The flagged characters of s, in order. *)
RECURSIVE Flagged(_, _, _)
Flagged(s, flags, i) ==
    IF i >= Len(s) THEN <<>>
    ELSE (IF i \in flags THEN <<s[i + 1]>> ELSE <<>>) \o Flagged(s, flags, i + 1)

(* The transpositions of jaro: half the positions where the matched        *)
(* characters of a and of b, each in its own order, differ.                *)
jaro_transpositions(ma, mb) ==
    Cardinality({k \in 1..Len(ma) : ma[k] # mb[k]}) \div 2

(* The closing expression of jaro, from the two counts. *)
jaro_score(a, b, matches, transpositions) ==
    IF matches = 0 THEN Sim(0, 1)
    ELSE Sim(matches * matches * Len(b) + matches * matches * Len(a)
                 + (matches - transpositions) * Len(a) * Len(b),
             3 * Len(a) * Len(b) * matches)

(* jaro after the matching pass left the flags f. *)
jaro_of_flags(a, b, f) ==
    jaro_score(a, b, Cardinality(f.a_flags),
               jaro_transpositions(Flagged(a, f.a_flags, 0), Flagged(b, f.b_flags, 0)))

generic_jaro(a, b) ==
    IF Len(a) = 0 /\ Len(b) = 0 THEN Sim(1, 1)
    ELSE IF Len(a) = 0 \/ Len(b) = 0 THEN Sim(0, 1)
    ELSE jaro_of_flags(a, b,
             JaroMatches(a, b, Max((Max(Len(a), Len(b)) \div 2) - 1, 0), 0, {}, {}))

(* The length of the common prefix, at most 4 characters. *)
prefix_length(a, b) ==
    Cardinality({k \in 1..Min(4, Min(Len(a), Len(b))) : \A m \in 1..k : a[m] = b[m]})

(* The Winkler boost of a jaro similarity sim: applied above 0.7 only. *)
winkler_boost(a, b, sim) ==
    IF sim_gt(sim, Sim(7, 10))
    THEN Sim(10 * sim.num + prefix_length(a, b) * (sim.den - sim.num), 10 * sim.den)
    ELSE sim

generic_jaro_winkler(a, b) == winkler_boost(a, b, generic_jaro(a, b))

(* The words of the model, and their similarities computed once. *)
w_thw == <<"t", "h", "w">>
w_Thw == <<"T", "h", "w">>
w_THW == <<"T", "H", "W">>
w_the == <<"t", "h", "e">>
w_THE == <<"T", "H", "E">>
w_Thy == <<"T", "h", "y">>
w_tee == <<"t", "e", "e">>
w_cat == <<"c", "a", "t">>
w_t == <<"t">>

Words == {w_thw, w_Thw, w_THW, w_the, w_THE, w_Thy, w_tee, w_cat, w_t}

SimilarityTable ==
    <<>> @@ [p \in Words \X Words |-> generic_jaro_winkler(p[1], p[2])]

(* strsim::jaro_winkler on two words of the model. *)
jaro_winkler(a, b) == SimilarityTable[<<a, b>>]

MIN_SIMILARITY == Sim(7, 10)

MIN_ALIGNMENT_SIMILARITY == Sim(1, 2)

MIN_AUTO_APPLY_CONFIDENCE == 55

MAX_LENGTH_DIFF == 1

-----------------------------------------------------------------------------
(* Word aligner. A state of the loop of align_words is                     *)
(* [orig_idx, edit_idx, pairs], 0-based cursors as in the code.            *)

AlignState(oi, ei, ps) == [orig_idx |-> oi, edit_idx |-> ei, pairs |-> ps]

(* Mutant: the fallback branch pushes the current tokens as a pair. *)
align_iteration_ForcePair(original, edited, st) ==
    LET orig == original[st.orig_idx + 1]
        edit == edited[st.edit_idx + 1]
        sim == jaro_winkler(orig, edit)
        skip_orig == /\ st.orig_idx + 1 < Len(original)
                     /\ sim_gt(jaro_winkler(original[st.orig_idx + 2], edit), sim)
        skip_edit == /\ st.edit_idx + 1 < Len(edited)
                     /\ sim_gt(jaro_winkler(orig, edited[st.edit_idx + 2]), sim)
    IN IF eq_ignore_ascii_case(orig, edit) \/ sim_ge(sim, MIN_ALIGNMENT_SIMILARITY)
       THEN AlignState(st.orig_idx + 1, st.edit_idx + 1, Append(st.pairs, <<orig, edit>>))
       ELSE IF skip_orig /\ ~skip_edit
            THEN AlignState(st.orig_idx + 1, st.edit_idx, st.pairs)
       ELSE IF ~skip_orig /\ skip_edit
            THEN AlignState(st.orig_idx, st.edit_idx + 1, st.pairs)
       ELSE AlignState(st.orig_idx + 1, st.edit_idx + 1, Append(st.pairs, <<orig, edit>>))

(* Mutant: the lookahead is consulted before the current pair is taken. *)
align_iteration_LookaheadFirst(original, edited, st) ==
    LET orig == original[st.orig_idx + 1]
        edit == edited[st.edit_idx + 1]
        sim == jaro_winkler(orig, edit)
        skip_orig == /\ st.orig_idx + 1 < Len(original)
                     /\ sim_gt(jaro_winkler(original[st.orig_idx + 2], edit), sim)
        skip_edit == /\ st.edit_idx + 1 < Len(edited)
                     /\ sim_gt(jaro_winkler(orig, edited[st.edit_idx + 2]), sim)
    IN IF skip_orig /\ ~skip_edit
       THEN AlignState(st.orig_idx + 1, st.edit_idx, st.pairs)
       ELSE IF ~skip_orig /\ skip_edit
       THEN AlignState(st.orig_idx, st.edit_idx + 1, st.pairs)
       ELSE IF eq_ignore_ascii_case(orig, edit) \/ sim_ge(sim, MIN_ALIGNMENT_SIMILARITY)
       THEN AlignState(st.orig_idx + 1, st.edit_idx + 1, Append(st.pairs, <<orig, edit>>))
       ELSE AlignState(st.orig_idx + 1, st.edit_idx + 1, st.pairs)

(* Mutant: the fallback advances no cursor. *)
align_iteration_StuckFallback(original, edited, st) ==
    LET orig == original[st.orig_idx + 1]
        edit == edited[st.edit_idx + 1]
        sim == jaro_winkler(orig, edit)
        skip_orig == /\ st.orig_idx + 1 < Len(original)
                     /\ sim_gt(jaro_winkler(original[st.orig_idx + 2], edit), sim)
        skip_edit == /\ st.edit_idx + 1 < Len(edited)
                     /\ sim_gt(jaro_winkler(orig, edited[st.edit_idx + 2]), sim)
    IN IF eq_ignore_ascii_case(orig, edit) \/ sim_ge(sim, MIN_ALIGNMENT_SIMILARITY)
       THEN AlignState(st.orig_idx + 1, st.edit_idx + 1, Append(st.pairs, <<orig, edit>>))
       ELSE IF skip_orig /\ ~skip_edit
       THEN AlignState(st.orig_idx + 1, st.edit_idx, st.pairs)
       ELSE IF ~skip_orig /\ skip_edit
       THEN AlignState(st.orig_idx, st.edit_idx + 1, st.pairs)
       ELSE AlignState(st.orig_idx, st.edit_idx, st.pairs)

(* Mutant: skipping an original token also pushes the current pair. *)
align_iteration_PairOnSkip(original, edited, st) ==
    LET orig == original[st.orig_idx + 1]
        edit == edited[st.edit_idx + 1]
        sim == jaro_winkler(orig, edit)
        skip_orig == /\ st.orig_idx + 1 < Len(original)
                     /\ sim_gt(jaro_winkler(original[st.orig_idx + 2], edit), sim)
        skip_edit == /\ st.edit_idx + 1 < Len(edited)
                     /\ sim_gt(jaro_winkler(orig, edited[st.edit_idx + 2]), sim)
    IN IF eq_ignore_ascii_case(orig, edit) \/ sim_ge(sim, MIN_ALIGNMENT_SIMILARITY)
       THEN AlignState(st.orig_idx + 1, st.edit_idx + 1, Append(st.pairs, <<orig, edit>>))
       ELSE IF skip_orig /\ ~skip_edit
            THEN AlignState(st.orig_idx + 1, st.edit_idx, Append(st.pairs, <<orig, edit>>))
       ELSE IF ~skip_orig /\ skip_edit
            THEN AlignState(st.orig_idx, st.edit_idx + 1, st.pairs)
       ELSE AlignState(st.orig_idx + 1, st.edit_idx + 1, st.pairs)

(* One iteration of the while loop, learning.rs:306-342. *)
align_iteration(original, edited, st) ==
    LET orig == original[st.orig_idx + 1]
        edit == edited[st.edit_idx + 1]
    IN IF eq_ignore_ascii_case(orig, edit)
       THEN AlignState(st.orig_idx + 1, st.edit_idx + 1, Append(st.pairs, <<orig, edit>>))
       ELSE LET sim == jaro_winkler(orig, edit)
            IN IF sim_ge(sim, MIN_ALIGNMENT_SIMILARITY)
               THEN AlignState(st.orig_idx + 1, st.edit_idx + 1,
                               Append(st.pairs, <<orig, edit>>))
               ELSE LET has_next_orig == st.orig_idx + 1 < Len(original)
                        has_next_edit == st.edit_idx + 1 < Len(edited)
                        skip_orig ==
                            /\ has_next_orig
                            /\ sim_gt(jaro_winkler(original[st.orig_idx + 2], edit), sim)
                        skip_edit ==
                            /\ has_next_edit
                            /\ sim_gt(jaro_winkler(orig, edited[st.edit_idx + 2]), sim)
                    IN IF skip_orig /\ ~skip_edit
                       THEN AlignState(st.orig_idx + 1, st.edit_idx, st.pairs)
                       ELSE IF ~skip_orig /\ skip_edit
                       THEN AlignState(st.orig_idx, st.edit_idx + 1, st.pairs)
                       ELSE AlignState(st.orig_idx + 1, st.edit_idx + 1, st.pairs)

(* The loop condition, learning.rs:306. *)
align_running(original, edited, st) ==
    st.orig_idx < Len(original) /\ st.edit_idx < Len(edited)

RECURSIVE AlignLoop(_, _, _)
AlignLoop(original, edited, st) ==
    IF align_running(original, edited, st)
    THEN AlignLoop(original, edited, align_iteration(original, edited, st))
    ELSE st.pairs

align_words(original, edited) ==
    IF original = <<>> \/ edited = <<>> THEN <<>>
    ELSE AlignLoop(original, edited, AlignState(0, 0, <<>>))

-----------------------------------------------------------------------------
(* Persistence and the Correction record (crate::storage, crate::types).   *)
(* The store maps the identity key <<original, corrected>> to the          *)
(* occurrence count of that correction.                                    *)

EmptyStore == [k \in {} |-> 0]

(* Confidence from occurrences: concave, increasing, below 1.0, crossing   *)
(* the default threshold 0.55 at the third observation.                    *)
ConfidenceTable == <<50, 54, 58, 61, 63, 64>>

confidence_of(occurrences) ==
    ConfidenceTable[Min(occurrences, Len(ConfidenceTable))]

(* Correction::new: a fresh record of one occurrence. *)
Correction_new(original, corrected) ==
    [original |-> original, corrected |-> corrected, occurrences |-> 1,
     confidence |-> 0]

(* Correction::update_confidence: from the record's own occurrences. *)
update_confidence(correction) ==
    [correction EXCEPT !.confidence = confidence_of(correction.occurrences)]

(* Storage::save_correction: upsert keyed by (original, corrected). *)
save_correction(st, correction) ==
    LET key == <<correction.original, correction.corrected>>
    IN [k \in DOMAIN st \cup {key} |->
            IF k = key THEN (IF key \in DOMAIN st THEN st[key] + 1 ELSE 1)
            ELSE st[k]]

(* Storage::get_corrections: the corrections at or above min_confidence,   *)
(* as a set; the order they are returned in is not fixed.                  *)
get_corrections(st, min_conf) ==
    {[original |-> k[1], corrected |-> k[2], confidence |-> confidence_of(st[k])] :
        k \in {x \in DOMAIN st : confidence_of(st[x]) >= min_conf}}

Orderings(S) ==
    {q \in [1..Cardinality(S) -> S] :
        \A i, j \in 1..Cardinality(S) : i # j => q[i] # q[j]}

-----------------------------------------------------------------------------
(* learn_from_edit                                                         *)

LearnedCorrection(original, corrected, similarity) ==
    [original |-> original, corrected |-> corrected, similarity |-> similarity]

len_diff(orig, edit) ==
    IF byte_len(orig) >= byte_len(edit)
    THEN byte_len(orig) - byte_len(edit)
    ELSE byte_len(edit) - byte_len(orig)

(* Mutant: no length check. *)
accepts_NoLengthCheck(orig, edit) ==
    /\ ~eq_ignore_ascii_case(orig, edit)
    /\ sim_ge(jaro_winkler(orig, edit), MIN_SIMILARITY)

(* learning.rs:98-110: the pair is taken as a typo correction. *)
accepts(orig, edit) ==
    /\ ~eq_ignore_ascii_case(orig, edit)
    /\ sim_ge(jaro_winkler(orig, edit), MIN_SIMILARITY)
    /\ ~(len_diff(orig, edit) > MAX_LENGTH_DIFF)

(* learning.rs:123-133: the cache after the step for one saved correction. *)
promote(cache, min_conf, correction) ==
    LET updated == update_confidence(correction)
    IN IF updated.confidence >= min_conf
       THEN insert(cache, updated.original,
                   CachedCorrection(updated.corrected, updated.confidence))
       ELSE cache

LearnState(ok, st, cache, learned, calls) ==
    [ok |-> ok, store |-> st, cache |-> cache, learned |-> learned, calls |-> calls]

(* Mutant: the cache entry written before the save is known to succeed. *)
save_failed_CacheFirst(s, min_conf, correction, calls) ==
    LearnState(FALSE, s.store, promote(s.cache, min_conf, correction), <<>>, calls)

(* learning.rs:120, save_correction(..)? on Err: the call returns the      *)
(* error; what was saved and cached before stays.                          *)
save_failed(s, min_conf, correction, calls) ==
    LearnState(FALSE, s.store, s.cache, <<>>, calls)

(* The loop of learning.rs:96-146 from pair i on. calls lists the keys of  *)
(* the save_correction calls made; the fail_at-th of them returns Err      *)
(* (0: none does), which ends the call at the ? of learning.rs:120.        *)
RECURSIVE LearnLoop(_, _, _, _, _)
LearnLoop(prs, i, min_conf, fail_at, s) ==
    IF i > Len(prs) THEN s
    ELSE LET orig == prs[i][1]
             edit == prs[i][2]
         IN IF ~accepts(orig, edit) THEN LearnLoop(prs, i + 1, min_conf, fail_at, s)
            ELSE LET correction == Correction_new(to_lowercase(orig), edit)
                     calls == Append(s.calls, <<correction.original, correction.corrected>>)
                 IN IF Len(calls) = fail_at
                    THEN save_failed(s, min_conf, correction, calls)
                    ELSE LearnLoop(prs, i + 1, min_conf, fail_at,
                             LearnState(TRUE,
                                        save_correction(s.store, correction),
                                        promote(s.cache, min_conf, correction),
                                        Append(s.learned,
                                               LearnedCorrection(orig, edit,
                                                   jaro_winkler(orig, edit))),
                                        calls))

learn_from_edit(cache, min_conf, st, original, edited, fail_at) ==
    LET original_ws == split_whitespace(original)
        edited_ws == split_whitespace(edited)
    IN LearnLoop(align_words(original_ws, edited_ws), 1, min_conf, fail_at,
                 LearnState(TRUE, st, cache, <<>>, <<>>))

(* reload_from_storage, learning.rs:249-259: the cache rebuilt from the    *)
(* list get_corrections returned.                                          *)
RECURSIVE LoadInto(_, _, _)
LoadInto(cache, list, i) ==
    IF i > Len(list) THEN cache
    ELSE LoadInto(insert(cache, to_lowercase(list[i].original),
                         CachedCorrection(list[i].corrected, list[i].confidence)),
                  list, i + 1)

clamp(x, lo, hi) == IF x < lo THEN lo ELSE IF x > hi THEN hi ELSE x

-----------------------------------------------------------------------------
(* Words and texts the operations are called with.                         *)

(* Most tokens of a text given to apply_corrections. *)
MaxTokens == 2

ApplyVocab == {w_thw, w_Thw, w_THW, w_the, w_cat}

Margins == {<<>>, <<" ">>}

Separators == {<<" ">>, <<" ", "\t">>}

(* The texts of exactly n tokens, with or without leading whitespace. *)
RECURSIVE TokenTexts(_)
TokenTexts(n) ==
    IF n = 0 THEN Margins
    ELSE {t \o s \o w : t \in TokenTexts(n - 1),
                        s \in (IF n = 1 THEN {<<>>} ELSE Separators),
                        w \in ApplyVocab}

Texts ==
    UNION {{t \o m : t \in TokenTexts(n), m \in Margins} : n \in 0..MaxTokens}

(* Cache contents the engine reaches: lowercase keys, the corrections and  *)
(* confidences learn_from_edit and reload_from_storage put there.          *)
SampleEntries ==
    {<<w_thw, CachedCorrection(w_the, 50)>>,
     <<w_thw, CachedCorrection(w_the, 58)>>,
     <<w_thw, CachedCorrection(w_Thy, 58)>>,
     <<w_the, CachedCorrection(w_tee, 58)>>}

SampleKeys == {e[1] : e \in SampleEntries}

SampleCaches ==
    UNION {{c \in [K -> {e[2] : e \in SampleEntries}] :
                \A k \in K : <<k, c[k]>> \in SampleEntries} : K \in SUBSET SampleKeys}

SampleMinConfidence == {0, 55, 90}

NoCall == [op |-> "none"]

(* Threads calling into one engine. *)
MaxThreads == 2

Threads == 1..MaxThreads

(* parking_lot::RwLock: writer is the thread holding write(), 0 for none;  *)
(* readers are the threads holding read().                                 *)
Unlocked == [writer |-> 0, readers |-> {}]

NoLocal ==
    [prs |-> <<>>, i |-> 0, list |-> <<>>, own |-> "none",
     text |-> <<>>, seen |-> EmptyCache, result |-> <<>>]

NoBefore == [drawn |-> FALSE]

-----------------------------------------------------------------------------
(* align_words, one loop iteration per step.                               *)

(* Most tokens of a sequence given to align_words. *)
MaxAlignLen == 2

AlignVocab == {w_thw, w_the, w_THE, w_cat}

RECURSIVE SeqsUpTo(_, _)
SeqsUpTo(S, n) ==
    IF n = 0 THEN {<<>>}
    ELSE SeqsUpTo(S, n - 1)
             \cup {Append(q, x) : q \in {p \in SeqsUpTo(S, n - 1) : Len(p) = n - 1},
                                  x \in S}

(* at: the cursor positions the pairs pushed so far were pushed at; n: the *)
(* iterations made so far.                                                 *)
NoStep == [taken |-> FALSE, at |-> <<>>, n |-> 0]

AlignIdle ==
    /\ original_words = <<>> /\ edited_words = <<>>
    /\ orig_idx = 0 /\ edit_idx = 0 /\ pairs = <<>> /\ step = NoStep

(* WritingMode (types.rs), by the numbers of ffi.rs:367-372. *)
WritingModes == {"Formal", "Casual"}

NoModes == [a \in {} |-> "Casual"]

(* No handle yet; the mode engine as WritingModeEngine::new(Casual) makes  *)
(* it, ffi.rs:93 and modes.rs:25-30.                                       *)
HostIdle ==
    /\ handle = "none"
    /\ default_mode = "Casual"
    /\ app_modes = NoModes
    /\ app_mode_store = NoModes
    /\ cleared = {}

(* One caller: no thread is inside a call and the lock is free. *)
ThreadsIdle ==
    /\ pc = [t \in Threads |-> "idle"]
    /\ lock = Unlocked
    /\ local = [t \in Threads |-> NoLocal]
    /\ started = 0

AlignIteration ==
    LET st == AlignState(orig_idx, edit_idx, pairs)
    IN /\ original_words # <<>> /\ edited_words # <<>>
       /\ align_running(original_words, edited_words, st)
       /\ LET nx == align_iteration(original_words, edited_words, st)
          IN /\ orig_idx' = nx.orig_idx
             /\ edit_idx' = nx.edit_idx
             /\ pairs' = nx.pairs
       /\ step' = [taken |-> TRUE, orig_idx |-> orig_idx, edit_idx |-> edit_idx,
                   pairs |-> pairs,
                   at |-> IF Len(align_iteration(original_words, edited_words, st).pairs)
                                 > Len(pairs)
                          THEN Append(step.at, <<orig_idx, edit_idx>>)
                          ELSE step.at,
                   n |-> step.n + 1]
       /\ UNCHANGED <<original_words, edited_words>>

InitAlign ==
    /\ original_words \in SeqsUpTo(AlignVocab, MaxAlignLen)
    /\ edited_words \in SeqsUpTo(AlignVocab, MaxAlignLen)
    /\ orig_idx = 0 /\ edit_idx = 0 /\ pairs = <<>> /\ step = NoStep
    /\ corrections = EmptyCache
    /\ min_confidence = MIN_AUTO_APPLY_CONFIDENCE
    /\ store = EmptyStore
    /\ last = NoCall
    /\ before = NoBefore
    /\ ThreadsIdle
    /\ HostIdle

NextAlign == AlignIteration /\ UNCHANGED <<engine_vars, before, thread_vars, host_vars>>

SpecAlign == InitAlign /\ [][NextAlign]_vars

(* The loop keeps iterating while its condition holds. *)
SpecAlignFair == SpecAlign /\ WF_vars(NextAlign)

-----------------------------------------------------------------------------
(* LearningEngine::apply_corrections as an operation of the engine.        *)

ApplyCorrections(text) ==
    /\ LET r == apply_corrections(corrections, min_confidence, text)
       IN last' = [op |-> "apply_corrections", text |-> text,
                   result |-> r.result, applied |-> r.applied]
    /\ UNCHANGED <<corrections, min_confidence, store>>

(* Most occurrences persistence counts for one correction. *)
MaxOcc == 3

(* The engine after learn_from_edit returned r. *)
LearnReturns(r, original, edited, fail_at) ==
    /\ fail_at <= Len(r.calls)
    /\ \A k \in DOMAIN r.store : r.store[k] <= MaxOcc
    /\ store' = r.store
    /\ corrections' = r.cache
    /\ last' = [op |-> "learn_from_edit", original |-> original, edited |-> edited,
                ok |-> r.ok, learned |-> r.learned, calls |-> r.calls]
    /\ UNCHANGED min_confidence

LearnFromEdit(original, edited, fail_at) ==
    LearnReturns(learn_from_edit(corrections, min_confidence, store,
                                 original, edited, fail_at),
                 original, edited, fail_at)

SetMinConfidence(confidence) ==
    /\ min_confidence' = clamp(confidence, 0, 100)
    /\ last' = [op |-> "set_min_confidence", confidence |-> confidence]
    /\ UNCHANGED <<corrections, store>>

(* Mutant: the cache cleared before persistence is asked. *)
ReloadFromStorage_ClearFirst ==
    \/ \E list \in Orderings(get_corrections(store, min_confidence)) :
           /\ corrections' = LoadInto(EmptyCache, list, 1)
           /\ last' = [op |-> "reload_from_storage", ok |-> TRUE]
           /\ UNCHANGED <<min_confidence, store>>
    \/ /\ last' = [op |-> "reload_from_storage", ok |-> FALSE]
       /\ corrections' = EmptyCache
       /\ UNCHANGED <<min_confidence, store>>

ReloadFromStorage ==
    \/ \E list \in Orderings(get_corrections(store, min_confidence)) :
           /\ corrections' = LoadInto(EmptyCache, list, 1)
           /\ last' = [op |-> "reload_from_storage", ok |-> TRUE]
           /\ UNCHANGED <<min_confidence, store>>
    \/ /\ last' = [op |-> "reload_from_storage", ok |-> FALSE]
       /\ UNCHANGED <<corrections, min_confidence, store>>

RemoveFromCache(original) ==
    /\ corrections' = remove(corrections, to_lowercase(original))
    /\ last' = [op |-> "remove_from_cache", original |-> original]
    /\ UNCHANGED <<min_confidence, store>>

ClearCache ==
    /\ corrections' = EmptyCache
    /\ last' = [op |-> "clear_cache"]
    /\ UNCHANGED <<min_confidence, store>>

(* LearningEngine::cache_size, learning.rs:233-235. *)
cache_size(cache) == Cardinality(DOMAIN cache)

(* learning.rs:219-225: the (original, corrected, confidence) triples of   *)
(* the cache; the Vec has the map's iteration order, which is left open.   *)
get_all_corrections(cache) ==
    {<<k, cache[k].corrected, cache[k].confidence>> : k \in DOMAIN cache}

CacheSize ==
    /\ last' = [op |-> "cache_size", result |-> cache_size(corrections)]
    /\ UNCHANGED <<corrections, min_confidence, store>>

GetAllCorrections ==
    /\ last' = [op |-> "get_all_corrections",
                result |-> get_all_corrections(corrections)]
    /\ UNCHANGED <<corrections, min_confidence, store>>

(* Mutant: every cached entry is returned, whatever its confidence. *)
get_correction_Ungated(cache, min_conf, word) ==
    IF to_lowercase(word) \in DOMAIN cache
    THEN [some |-> TRUE, corrected |-> cache[to_lowercase(word)].corrected]
    ELSE [some |-> FALSE]

(* learning.rs:204-207. *)
has_correction(cache, word) == to_lowercase(word) \in DOMAIN cache

(* learning.rs:210-216: Some(corrected) for an entry at or above the       *)
(* minimum.                                                                *)
get_correction(cache, min_conf, word) ==
    IF /\ to_lowercase(word) \in DOMAIN cache
       /\ cache[to_lowercase(word)].confidence >= min_conf
    THEN [some |-> TRUE, corrected |-> cache[to_lowercase(word)].corrected]
    ELSE [some |-> FALSE]

HasCorrection(word) ==
    /\ last' = [op |-> "has_correction", word |-> word,
                result |-> has_correction(corrections, word)]
    /\ UNCHANGED <<corrections, min_confidence, store>>

GetCorrection(word) ==
    /\ last' = [op |-> "get_correction", word |-> word,
                result |-> get_correction(corrections, min_confidence, word)]
    /\ UNCHANGED <<corrections, min_confidence, store>>

(* from_storage, learning.rs:51-73: the engine built again from            *)
(* persistence at the default minimum; on Err no engine is returned and    *)
(* the one in use stays.                                                   *)
FromStorage ==
    \/ \E list \in Orderings(get_corrections(store, MIN_AUTO_APPLY_CONFIDENCE)) :
           /\ corrections' = LoadInto(EmptyCache, list, 1)
           /\ min_confidence' = MIN_AUTO_APPLY_CONFIDENCE
           /\ last' = [op |-> "from_storage", ok |-> TRUE]
           /\ UNCHANGED store
    \/ /\ last' = [op |-> "from_storage", ok |-> FALSE]
       /\ UNCHANGED <<corrections, min_confidence, store>>

(* The words has_correction, get_correction and remove_from_cache are      *)
(* called with.                                                            *)
LookupWords == {w_thw, w_Thw, w_THW, w_THE}

(* The engine under sequences of calls. *)
EngineEdits ==
    {<<w_thw, w_the>>, <<w_Thw, w_Thy>>, <<w_the, w_tee>>,
     <<w_thw \o <<" ">> \o w_the, w_the \o <<" ">> \o w_tee>>}

EngineTexts == {w_thw, w_Thw, w_the, w_cat \o <<" ", " ">> \o w_THW}

EngineThresholds == {-5, 55, 90}

Init ==
    /\ corrections = EmptyCache
    /\ min_confidence = MIN_AUTO_APPLY_CONFIDENCE
    /\ store = EmptyStore
    /\ last = NoCall
    /\ AlignIdle
    /\ before = NoBefore
    /\ ThreadsIdle
    /\ HostIdle

(* The variables no engine call touches. *)
Idle == UNCHANGED <<align_vars, before, thread_vars, host_vars>>

Next ==
    \/ \E edit \in EngineEdits, fail_at \in 0..1 :
           LearnFromEdit(edit[1], edit[2], fail_at) /\ Idle
    \/ \E text \in EngineTexts : ApplyCorrections(text) /\ Idle
    \/ \E confidence \in EngineThresholds : SetMinConfidence(confidence) /\ Idle
    \/ ReloadFromStorage /\ Idle
    \/ \E original \in {w_thw, w_THE} : RemoveFromCache(original) /\ Idle
    \/ ClearCache /\ Idle
    \/ \E word \in LookupWords : HasCorrection(word) /\ Idle
    \/ \E word \in LookupWords : GetCorrection(word) /\ Idle
    \/ FromStorage /\ Idle
    \/ CacheSize /\ Idle
    \/ GetAllCorrections /\ Idle

Spec == Init /\ [][Next]_vars

(* learn_from_edit as a function of store, cache, minimum, texts and the   *)
(* save that fails: one call from a drawn state.                           *)
MaxLearnLen == 2

LearnOrigVocab == {w_thw, w_Thw, w_the, w_THE, w_t}

LearnEditVocab == {w_the, w_Thy, w_tee}

SampleStores ==
    {EmptyStore,
     [k \in {<<w_thw, w_the>>} |-> 1],
     [k \in {<<w_thw, w_the>>, <<w_thw, w_Thy>>, <<w_the, w_tee>>} |-> 1]}

InitLearn ==
    /\ store \in SampleStores
    /\ min_confidence \in {0, MIN_AUTO_APPLY_CONFIDENCE}
    /\ corrections \in {EmptyCache,
                        LoadInto(EmptyCache,
                                 <<[original |-> w_thw, corrected |-> w_Thy,
                                    confidence |-> confidence_of(1)]>>, 1)}
    /\ last = NoCall
    /\ AlignIdle
    /\ before = [drawn |-> TRUE, store |-> store, corrections |-> corrections]
    /\ ThreadsIdle
    /\ HostIdle

NextLearn ==
    /\ last = NoCall
    /\ \E ows \in SeqsUpTo(LearnOrigVocab, MaxLearnLen),
          ews \in SeqsUpTo(LearnEditVocab, MaxLearnLen),
          fail_at \in 0..MaxLearnLen :
           LearnFromEdit(join(ows), join(ews), fail_at)
    /\ UNCHANGED <<align_vars, before, thread_vars, host_vars>>

SpecLearn == InitLearn /\ [][NextLearn]_vars

(* apply_corrections as a pure function of cache, minimum and text. *)
InitApply ==
    /\ corrections \in SampleCaches
    /\ min_confidence \in SampleMinConfidence
    /\ store = EmptyStore
    /\ last = NoCall
    /\ AlignIdle
    /\ before = NoBefore
    /\ ThreadsIdle
    /\ HostIdle

(* One call per drawn input. *)
NextApply ==
    /\ last = NoCall
    /\ \E text \in Texts : ApplyCorrections(text)
    /\ UNCHANGED <<align_vars, before, thread_vars, host_vars>>

SpecApply == InitApply /\ [][NextApply]_vars

-----------------------------------------------------------------------------
(* Threads calling into one engine through &self. Each call is split at    *)
(* its persistence calls and at the acquisitions and releases of the       *)
(* RwLock of corrections. A persistence call has a duration: the thread is *)
(* inside it from the step that enters it to the step where it returns.    *)

(* Most calls started in one run. *)
MaxCalls == 2

(* A caller starts a call. Threads are interchangeable, so the call is put *)
(* on the lowest idle one.                                                 *)
can_start(t) ==
    /\ pc[t] = "idle" /\ started < MaxCalls
    /\ \A u \in Threads : u < t => pc[u] # "idle"

(* Mutant: a writer enters while readers hold the lock. *)
can_write_IgnoresReaders(t) == lock.writer = 0

can_write(t) == lock.writer = 0 /\ lock.readers = {}

can_read(t) == lock.writer = 0

(* The thread positions inside Storage::save_correction or get_corrections. *)
InPersistence == {"save_correction", "get_corrections", "from_storage_get"}

(* The thread positions between clear() and the release of the guard in    *)
(* reload_from_storage.                                                    *)
ReloadMidway == {"reload_insert", "reload_drop"}

Goto(t, where) == pc' = [pc EXCEPT ![t] = where]

Return(t) == pc' = [pc EXCEPT ![t] = "idle"] /\ local' = [local EXCEPT ![t] = NoLocal]

(* learn_from_edit, learning.rs:82-94: tokenize and align. *)
LearnStart(t, original, edited) ==
    /\ can_start(t)
    /\ Goto(t, "learn_loop")
    /\ local' = [local EXCEPT ![t] =
           [NoLocal EXCEPT !.prs = align_words(split_whitespace(original),
                                               split_whitespace(edited)),
                           !.i = 1]]
    /\ started' = started + 1
    /\ UNCHANGED <<corrections, min_confidence, store, lock, last>>

(* Mutant: an accepted pair goes to its cache step without being saved. *)
LearnNext_CacheFirst(t) ==
    /\ pc[t] = "learn_loop"
    /\ IF local[t].i > Len(local[t].prs) THEN Return(t)
       ELSE IF ~accepts(local[t].prs[local[t].i][1], local[t].prs[local[t].i][2])
       THEN local' = [local EXCEPT ![t].i = @ + 1] /\ UNCHANGED pc
       ELSE Goto(t, "learn_write") /\ UNCHANGED local
    /\ UNCHANGED <<corrections, min_confidence, store, lock, last, started>>

(* learning.rs:96-117: the next pair: skipped, or given to save_correction; *)
(* after the last pair the call returns Ok.                                *)
LearnNext(t) ==
    /\ pc[t] = "learn_loop"
    /\ IF local[t].i > Len(local[t].prs) THEN Return(t)
       ELSE IF ~accepts(local[t].prs[local[t].i][1], local[t].prs[local[t].i][2])
       THEN local' = [local EXCEPT ![t].i = @ + 1] /\ UNCHANGED pc
       ELSE Goto(t, "save_correction") /\ UNCHANGED local
    /\ UNCHANGED <<corrections, min_confidence, store, lock, last, started>>

(* The record learn_from_edit builds for its current pair. *)
CurrentCorrection(t) ==
    Correction_new(to_lowercase(local[t].prs[local[t].i][1]), local[t].prs[local[t].i][2])

(* learning.rs:120-124: save_correction returns. Ok: the cache entry is    *)
(* due if the record's confidence reaches the minimum. Err: the call ends. *)
SaveReturns(t) ==
    /\ pc[t] = "save_correction"
    /\ \/ /\ store' = save_correction(store, CurrentCorrection(t))
          /\ IF update_confidence(CurrentCorrection(t)).confidence >= min_confidence
             THEN Goto(t, "learn_write") /\ UNCHANGED local
             ELSE Goto(t, "learn_loop") /\ local' = [local EXCEPT ![t].i = @ + 1]
       \/ Return(t) /\ UNCHANGED store
    /\ UNCHANGED <<corrections, min_confidence, lock, last, started>>

(* learning.rs:125: self.corrections.write(). *)
LearnLock(t) ==
    /\ pc[t] = "learn_write" /\ can_write(t)
    /\ lock' = [lock EXCEPT !.writer = t]
    /\ Goto(t, "learn_insert")
    /\ UNCHANGED <<corrections, min_confidence, store, local, last, started>>

(* learning.rs:126-132: cache.insert. *)
LearnInsert(t) ==
    /\ pc[t] = "learn_insert"
    /\ corrections' = promote(corrections, min_confidence, CurrentCorrection(t))
    /\ Goto(t, "learn_drop")
    /\ UNCHANGED <<min_confidence, store, lock, local, last, started>>

(* Mutant: the loop goes on with the write guard still held. *)
LearnUnlock_KeepsGuard(t) ==
    /\ pc[t] = "learn_drop"
    /\ Goto(t, "learn_loop")
    /\ local' = [local EXCEPT ![t].i = @ + 1]
    /\ UNCHANGED <<corrections, min_confidence, store, lock, last, started>>

(* learning.rs:133: the guard dropped at the end of the block. *)
LearnUnlock(t) ==
    /\ pc[t] = "learn_drop"
    /\ lock' = [lock EXCEPT !.writer = 0]
    /\ Goto(t, "learn_loop")
    /\ local' = [local EXCEPT ![t].i = @ + 1]
    /\ UNCHANGED <<corrections, min_confidence, store, last, started>>

(* Mutant: the write guard taken before the load from persistence. *)
ReloadStart_LockFirst(t) ==
    /\ can_start(t) /\ can_write(t)
    /\ lock' = [lock EXCEPT !.writer = t]
    /\ Goto(t, "get_corrections")
    /\ started' = started + 1
    /\ UNCHANGED <<corrections, min_confidence, store, local, last>>

(* reload_from_storage, learning.rs:247: the call enters get_corrections. *)
ReloadStart(t) ==
    /\ can_start(t)
    /\ Goto(t, "get_corrections")
    /\ started' = started + 1
    /\ UNCHANGED <<corrections, min_confidence, store, lock, local, last>>

(* learning.rs:247: get_corrections(self.min_confidence) returns a list,   *)
(* or Err and the ? ends the call with the cache untouched.                *)
GetReturns(t) ==
    /\ pc[t] = "get_corrections"
    /\ \/ \E list \in Orderings(get_corrections(store, min_confidence)) :
              /\ local' = [local EXCEPT ![t].list = list, ![t].i = 1]
              /\ Goto(t, "reload_write")
              /\ UNCHANGED last
       \/ /\ Return(t)
          /\ last' = [op |-> "reload_from_storage", ok |-> FALSE]
    /\ UNCHANGED <<corrections, min_confidence, store, lock, started>>

(* Mutant: the guard taken without waiting for readers and writers. *)
ReloadLock_NoWait(t) ==
    /\ pc[t] = "reload_write"
    /\ lock' = [lock EXCEPT !.writer = t]
    /\ Goto(t, "reload_clear")
    /\ UNCHANGED <<corrections, min_confidence, store, local, last, started>>

(* learning.rs:249: self.corrections.write(). *)
ReloadLock(t) ==
    /\ pc[t] = "reload_write" /\ can_write(t)
    /\ lock' = [lock EXCEPT !.writer = t]
    /\ Goto(t, "reload_clear")
    /\ UNCHANGED <<corrections, min_confidence, store, local, last, started>>

(* learning.rs:250: cache.clear(). *)
ReloadClear(t) ==
    /\ pc[t] = "reload_clear"
    /\ corrections' = EmptyCache
    /\ Goto(t, "reload_insert")
    /\ UNCHANGED <<min_confidence, store, lock, local, last, started>>

(* learning.rs:251-259: one iteration of the loop over the list. *)
ReloadInsert(t) ==
    /\ pc[t] = "reload_insert"
    /\ IF local[t].i > Len(local[t].list)
       THEN Goto(t, "reload_drop") /\ UNCHANGED <<corrections, local>>
       ELSE /\ corrections' = LoadInto(corrections, <<local[t].list[local[t].i]>>, 1)
            /\ local' = [local EXCEPT ![t].i = @ + 1]
            /\ UNCHANGED pc
    /\ UNCHANGED <<min_confidence, store, lock, last, started>>

(* learning.rs:263-264: Ok(()) and the guard dropped as the call returns. *)
ReloadReturns(t) ==
    /\ pc[t] = "reload_drop"
    /\ lock' = [lock EXCEPT !.writer = 0]
    /\ Return(t)
    /\ last' = [op |-> "reload_from_storage", ok |-> TRUE,
                list |-> local[t].list, cache |-> corrections]
    /\ UNCHANGED <<corrections, min_confidence, store, started>>

(* from_storage, learning.rs:51-53: a new engine, then get_corrections. *)
FromStorageStart(t) ==
    /\ can_start(t)
    /\ Goto(t, "from_storage_get")
    /\ started' = started + 1
    /\ UNCHANGED <<corrections, min_confidence, store, lock, local, last>>

(* learning.rs:53: the list at MIN_AUTO_APPLY_CONFIDENCE, or Err. *)
FromStorageGetReturns(t) ==
    /\ pc[t] = "from_storage_get"
    /\ \/ \E list \in Orderings(get_corrections(store, MIN_AUTO_APPLY_CONFIDENCE)) :
              /\ local' = [local EXCEPT ![t].list = list]
              /\ Goto(t, "from_storage_write")
              /\ UNCHANGED last
       \/ /\ Return(t)
          /\ last' = [op |-> "from_storage", ok |-> FALSE]
    /\ UNCHANGED <<corrections, min_confidence, store, lock, started>>

(* learning.rs:55: the write guard of the new engine's own lock. *)
FromStorageLock(t) ==
    /\ pc[t] = "from_storage_write"
    /\ local' = [local EXCEPT ![t].own = "write"]
    /\ Goto(t, "from_storage_insert")
    /\ UNCHANGED <<corrections, min_confidence, store, lock, last, started>>

(* learning.rs:56-72: the new engine's cache filled, the guard dropped,    *)
(* Ok(engine).                                                             *)
FromStorageReturns(t) ==
    /\ pc[t] = "from_storage_insert"
    /\ Return(t)
    /\ last' = [op |-> "from_storage", ok |-> TRUE,
                cache |-> LoadInto(EmptyCache, local[t].list, 1)]
    /\ UNCHANGED <<corrections, min_confidence, store, lock, started>>

(* The read guard of apply_corrections, has_correction, get_correction,    *)
(* get_all_corrections and cache_size: learning.rs:154, 205, 211, 221, 234. *)
ReadLock(t) ==
    /\ can_start(t) /\ can_read(t)
    /\ lock' = [lock EXCEPT !.readers = @ \cup {t}]
    /\ Goto(t, "read")
    /\ started' = started + 1
    /\ UNCHANGED <<corrections, min_confidence, store, local, last>>

(* What the call reads under its guard: the cache, and whether a reload    *)
(* is between its clear and its return.                                    *)
ReadObserve(t) ==
    /\ pc[t] = "read"
    /\ last' = [op |-> "read", cache |-> corrections,
                midway |-> \E u \in Threads : pc[u] \in ReloadMidway]
    /\ Goto(t, "read_drop")
    /\ UNCHANGED <<corrections, min_confidence, store, lock, local, started>>

ReadUnlock(t) ==
    /\ pc[t] = "read_drop"
    /\ lock' = [lock EXCEPT !.readers = @ \ {t}]
    /\ Return(t)
    /\ UNCHANGED <<corrections, min_confidence, store, last, started>>

(* remove_from_cache, learning.rs:239: write(). *)
RemoveFromCacheLock(t, original) ==
    /\ can_start(t) /\ can_write(t)
    /\ lock' = [lock EXCEPT !.writer = t]
    /\ Goto(t, "remove_from_cache")
    /\ local' = [local EXCEPT ![t] = [NoLocal EXCEPT !.text = original]]
    /\ started' = started + 1
    /\ UNCHANGED <<corrections, min_confidence, store, last>>

(* learning.rs:239: remove(), the guard dropped at the end of the          *)
(* statement.                                                              *)
RemoveFromCacheReturns(t) ==
    /\ pc[t] = "remove_from_cache"
    /\ corrections' = remove(corrections, to_lowercase(local[t].text))
    /\ lock' = [lock EXCEPT !.writer = 0]
    /\ Return(t)
    /\ UNCHANGED <<min_confidence, store, last, started>>

(* apply_corrections, learning.rs:153: read(), held to the end of the      *)
(* call. seen is the cache at that moment.                                 *)
ApplyLock(t, text) ==
    /\ can_start(t) /\ can_read(t)
    /\ lock' = [lock EXCEPT !.readers = @ \cup {t}]
    /\ Goto(t, "apply_check")
    /\ local' = [local EXCEPT ![t] = [NoLocal EXCEPT !.text = text, !.seen = corrections]]
    /\ started' = started + 1
    /\ UNCHANGED <<corrections, min_confidence, store, last>>

(* learning.rs:155-163: the early exits, else the tokens. *)
ApplyCheck(t) ==
    /\ pc[t] = "apply_check"
    /\ IF cache_size(corrections) = 0 \/ split_whitespace(local[t].text) = <<>>
       THEN /\ local' = [local EXCEPT ![t].result = local[t].text]
            /\ Goto(t, "apply_drop")
       ELSE /\ local' = [local EXCEPT ![t].prs = split_whitespace(local[t].text)]
            /\ Goto(t, "apply_loop")
    /\ UNCHANGED <<corrections, min_confidence, store, lock, last, started>>

(* The result word for one token, learning.rs:171-190. *)
apply_word(cache, min_conf, word) ==
    IF eligible(cache, min_conf, to_lowercase(word))
    THEN match_case(cache[to_lowercase(word)].corrected, word)
    ELSE word

(* The thread's result_words after one more iteration of the loop. *)
ApplyStep(t) == Append(local[t].list, apply_word(corrections, min_confidence,
                                                 local[t].prs[local[t].i + 1]))

(* learning.rs:170-194: one iteration of the loop; after the last the      *)
(* join.                                                                   *)
ApplyToken(t) ==
    /\ pc[t] = "apply_loop"
    /\ IF local[t].i + 1 = Len(local[t].prs)
       THEN /\ local' = [local EXCEPT ![t].result = join(ApplyStep(t))]
            /\ Goto(t, "apply_drop")
       ELSE /\ local' = [local EXCEPT ![t].i = @ + 1, ![t].list = ApplyStep(t)]
            /\ UNCHANGED pc
    /\ UNCHANGED <<corrections, min_confidence, store, lock, last, started>>

(* learning.rs:200-201: the call returns and the guard is dropped. *)
ApplyReturns(t) ==
    /\ pc[t] = "apply_drop"
    /\ lock' = [lock EXCEPT !.readers = @ \ {t}]
    /\ last' = [op |-> "apply_corrections", text |-> local[t].text,
                result |-> local[t].result, seen |-> local[t].seen]
    /\ Return(t)
    /\ UNCHANGED <<corrections, min_confidence, store, started>>

(* clear_cache, learning.rs:229: write(). *)
ClearCacheLock(t) ==
    /\ can_start(t) /\ can_write(t)
    /\ lock' = [lock EXCEPT !.writer = t]
    /\ Goto(t, "clear_cache")
    /\ started' = started + 1
    /\ UNCHANGED <<corrections, min_confidence, store, local, last>>

(* learning.rs:229: clear(), the guard dropped at the end of the statement. *)
ClearCacheReturns(t) ==
    /\ pc[t] = "clear_cache"
    /\ corrections' = EmptyCache
    /\ lock' = [lock EXCEPT !.writer = 0]
    /\ Return(t)
    /\ UNCHANGED <<min_confidence, store, last, started>>

ConcEdits ==
    {<<w_thw, w_the>>, <<w_Thw, w_Thy>>, <<w_Thw, w_the>>,
     <<w_thw \o <<" ">> \o w_the, w_the \o <<" ">> \o w_tee>>}

(* The texts apply_corrections is called with beside the writers. *)
ConcTexts == {w_thw \o <<" ">> \o w_the}

ConcStores ==
    {EmptyStore,
     [k \in {<<w_thw, w_the>>, <<w_thw, w_Thy>>, <<w_the, w_tee>>} |->
          IF k = <<w_thw, w_the>> THEN 3 ELSE 1]}

ConcCaches ==
    {EmptyCache,
     LoadInto(EmptyCache, <<[original |-> w_the, corrected |-> w_tee,
                             confidence |-> confidence_of(1)]>>, 1)}

InitConc ==
    /\ store \in ConcStores
    /\ min_confidence \in {0, MIN_AUTO_APPLY_CONFIDENCE}
    /\ corrections \in ConcCaches
    /\ last = NoCall
    /\ AlignIdle
    /\ before = [drawn |-> TRUE, store |-> store, corrections |-> corrections]
    /\ ThreadsIdle
    /\ HostIdle

Unshared == UNCHANGED <<align_vars, before, host_vars>>

NextConc ==
    \/ \E t \in Threads, edit \in ConcEdits : LearnStart(t, edit[1], edit[2]) /\ Unshared
    \/ \E t \in Threads : LearnNext(t) /\ Unshared
    \/ \E t \in Threads : SaveReturns(t) /\ Unshared
    \/ \E t \in Threads : LearnLock(t) /\ Unshared
    \/ \E t \in Threads : LearnInsert(t) /\ Unshared
    \/ \E t \in Threads : LearnUnlock(t) /\ Unshared
    \/ \E t \in Threads : ReloadStart(t) /\ Unshared
    \/ \E t \in Threads : GetReturns(t) /\ Unshared
    \/ \E t \in Threads : ReloadLock(t) /\ Unshared
    \/ \E t \in Threads : ReloadClear(t) /\ Unshared
    \/ \E t \in Threads : ReloadInsert(t) /\ Unshared
    \/ \E t \in Threads : ReloadReturns(t) /\ Unshared
    \/ \E t \in Threads : FromStorageStart(t) /\ Unshared
    \/ \E t \in Threads : FromStorageGetReturns(t) /\ Unshared
    \/ \E t \in Threads : FromStorageLock(t) /\ Unshared
    \/ \E t \in Threads : FromStorageReturns(t) /\ Unshared
    \/ \E t \in Threads : ReadLock(t) /\ Unshared
    \/ \E t \in Threads : ReadObserve(t) /\ Unshared
    \/ \E t \in Threads : ReadUnlock(t) /\ Unshared
    \/ \E t \in Threads : ClearCacheLock(t) /\ Unshared
    \/ \E t \in Threads : ClearCacheReturns(t) /\ Unshared
    \/ \E t \in Threads, text \in ConcTexts : ApplyLock(t, text) /\ Unshared
    \/ \E t \in Threads : ApplyCheck(t) /\ Unshared
    \/ \E t \in Threads : ApplyToken(t) /\ Unshared
    \/ \E t \in Threads : ApplyReturns(t) /\ Unshared
    \/ \E t \in Threads : RemoveFromCacheLock(t, w_THE) /\ Unshared
    \/ \E t \in Threads : RemoveFromCacheReturns(t) /\ Unshared

SpecConc == InitConc /\ [][NextConc]_vars

(* The steps of a call under way that wait for nothing: the thread runs    *)
(* and each persistence call returns.                                      *)
Continue(t) ==
    \/ LearnNext(t) \/ SaveReturns(t) \/ LearnInsert(t) \/ LearnUnlock(t)
    \/ GetReturns(t) \/ ReloadClear(t) \/ ReloadInsert(t) \/ ReloadReturns(t)
    \/ FromStorageGetReturns(t) \/ FromStorageLock(t) \/ FromStorageReturns(t)
    \/ ReadObserve(t) \/ ReadUnlock(t)
    \/ ClearCacheReturns(t) \/ RemoveFromCacheReturns(t)
    \/ ApplyCheck(t) \/ ApplyToken(t) \/ ApplyReturns(t)

(* The steps of a call under way that wait for the write guard. *)
Acquire(t) == LearnLock(t) \/ ReloadLock(t)

(* Threads keep running, persistence answers, and the lock is fair: a      *)
(* thread that can take it again and again does take it.                   *)
SpecConcFair ==
    /\ SpecConc
    /\ \A t \in Threads : WF_vars(Continue(t) /\ Unshared)
    /\ \A t \in Threads : SF_vars(Acquire(t) /\ Unshared)

-----------------------------------------------------------------------------
(* One learn_from_edit beside one reload_from_storage. before keeps what   *)
(* each did: "none", "running", "ok" or "err", and the corrections         *)
(* learn_from_edit inserted into the cache.                                *)

RaceLearnStart(t, original, edited) ==
    /\ before.learn = "none"
    /\ LearnStart(t, original, edited)
    /\ before' = [before EXCEPT !.learn = "running"]

RaceLearnNext(t) ==
    /\ LearnNext(t)
    /\ before' = IF pc'[t] = "idle" THEN [before EXCEPT !.learn = "ok"] ELSE before

RaceSaveReturns(t) ==
    /\ SaveReturns(t)
    /\ before' = IF pc'[t] = "idle" THEN [before EXCEPT !.learn = "err"] ELSE before

RaceLearnInsert(t) ==
    /\ LearnInsert(t)
    /\ before' = [before EXCEPT !.inserted =
                      @ \cup {<<CurrentCorrection(t).original,
                                CurrentCorrection(t).corrected>>}]

RaceReloadStart(t) ==
    /\ before.reload = "none"
    /\ ReloadStart(t)
    /\ before' = [before EXCEPT !.reload = "running"]

RaceGetReturns(t) ==
    /\ GetReturns(t)
    /\ before' = IF pc'[t] = "idle" THEN [before EXCEPT !.reload = "err"] ELSE before

RaceReloadReturns(t) ==
    /\ ReloadReturns(t)
    /\ before' = [before EXCEPT !.reload = "ok"]

InitRace ==
    /\ store \in ConcStores
    /\ min_confidence \in {0, MIN_AUTO_APPLY_CONFIDENCE}
    /\ corrections \in ConcCaches
    /\ last = NoCall
    /\ AlignIdle
    /\ before = [drawn |-> TRUE, store |-> store, corrections |-> corrections,
                 learn |-> "none", reload |-> "none", inserted |-> {}]
    /\ ThreadsIdle
    /\ HostIdle

RaceOnly == UNCHANGED <<align_vars, host_vars>>

NextRace ==
    \/ \E t \in Threads, edit \in ConcEdits :
           RaceLearnStart(t, edit[1], edit[2]) /\ RaceOnly
    \/ \E t \in Threads : RaceLearnNext(t) /\ RaceOnly
    \/ \E t \in Threads : RaceSaveReturns(t) /\ RaceOnly
    \/ \E t \in Threads : LearnLock(t) /\ UNCHANGED before /\ RaceOnly
    \/ \E t \in Threads : RaceLearnInsert(t) /\ RaceOnly
    \/ \E t \in Threads : LearnUnlock(t) /\ UNCHANGED before /\ RaceOnly
    \/ \E t \in Threads : RaceReloadStart(t) /\ RaceOnly
    \/ \E t \in Threads : RaceGetReturns(t) /\ RaceOnly
    \/ \E t \in Threads : ReloadLock(t) /\ UNCHANGED before /\ RaceOnly
    \/ \E t \in Threads : ReloadClear(t) /\ UNCHANGED before /\ RaceOnly
    \/ \E t \in Threads : ReloadInsert(t) /\ UNCHANGED before /\ RaceOnly
    \/ \E t \in Threads : RaceReloadReturns(t) /\ RaceOnly

SpecRace == InitRace /\ [][NextRace]_vars

-----------------------------------------------------------------------------
(* match_case as a function of its two arguments: one call per run.        *)

(* Most characters of a token given to match_case. *)
MaxCaseLen == 3

(* Letters of both cases and a digit, which is not alphabetic. *)
CaseChars == {"t", "T", "h", "H", "1"}

CaseCorrected == {<<>>, w_the, w_THE, <<"t", "H", "e">>, <<"1", "t", "H">>}

MatchCase(corrected, original) ==
    /\ last' = [op |-> "match_case", corrected |-> corrected, original |-> original,
                result |-> match_case(corrected, original)]
    /\ UNCHANGED <<corrections, min_confidence, store>>

InitCase ==
    /\ corrections = EmptyCache
    /\ min_confidence = MIN_AUTO_APPLY_CONFIDENCE
    /\ store = EmptyStore
    /\ last = NoCall
    /\ AlignIdle
    /\ before = NoBefore
    /\ ThreadsIdle
    /\ HostIdle

NextCase ==
    /\ last = NoCall
    /\ \E corrected \in CaseCorrected, original \in SeqsUpTo(CaseChars, MaxCaseLen) :
           MatchCase(corrected, original)
    /\ UNCHANGED <<align_vars, before, thread_vars, host_vars>>

SpecCase == InitCase /\ [][NextCase]_vars

-----------------------------------------------------------------------------
(* The host boundary, ffi.rs: flowwhispr_init, flowwhispr_learn_from_edit  *)
(* and flowwhispr_correction_count on one handle. The shortcuts engine,    *)
(* audio and providers of the handle are left out.                         *)

(* Mutant: a failed load of the corrections fails the initialisation. *)
init_handle_FailOnLoad(opened, get_ok) == IF opened /\ get_ok THEN "live" ELSE "null"

(* ffi.rs:51-108: null on a bad path, directory, runtime or Storage::open; *)
(* a handle otherwise, whatever from_storage returned (ffi.rs:92).         *)
init_handle(opened, get_ok) == IF opened THEN "live" ELSE "null"

(* ffi.rs:92: from_storage(..).unwrap_or_else(|_| LearningEngine::new()). *)
FlowwhisprInit(opened, get_ok) ==
    /\ handle = "none"
    /\ handle' = init_handle(opened, get_ok)
    /\ IF opened /\ get_ok
       THEN \E list \in Orderings(get_corrections(store, MIN_AUTO_APPLY_CONFIDENCE)) :
                corrections' = LoadInto(EmptyCache, list, 1)
       ELSE corrections' = EmptyCache
    /\ min_confidence' = MIN_AUTO_APPLY_CONFIDENCE
    /\ last' = [op |-> "flowwhispr_init", opened |-> opened, get_ok |-> get_ok]
    /\ UNCHANGED <<store, default_mode, app_modes, app_mode_store, cleared>>

(* The value of a *const c_char that is null or not UTF-8. *)
BadPtr == <<"\\0">>

(* ffi.rs:416-450. fail_at as in learn_from_edit. *)
FlowwhisprLearnFromEdit(original, edited, fail_at) ==
    /\ handle = "live"
    /\ IF original = BadPtr \/ edited = BadPtr
       THEN /\ fail_at = 0
            /\ last' = [op |-> "flowwhispr_learn_from_edit", original |-> original,
                        edited |-> edited, result |-> FALSE, calls |-> <<>>]
            /\ UNCHANGED <<corrections, store>>
       ELSE LearnReturns(learn_from_edit(corrections, min_confidence, store,
                                        original, edited, fail_at),
                        original, edited, fail_at)
    /\ UNCHANGED <<min_confidence, host_vars>>

(* ffi.rs:454-457. *)
FlowwhisprCorrectionCount ==
    /\ handle = "live"
    /\ last' = [op |-> "flowwhispr_correction_count", count |-> cache_size(corrections)]
    /\ UNCHANGED <<corrections, min_confidence, store, host_vars>>

FfiStores ==
    {EmptyStore,
     [k \in {<<w_thw, w_the>>, <<w_the, w_tee>>} |->
          IF k = <<w_thw, w_the>> THEN 3 ELSE 1]}

FfiEdits ==
    {<<w_thw, w_the>>, <<w_the, w_tee>>, <<w_Thw, w_Thy>>, <<BadPtr, w_the>>,
     <<w_thw \o <<" ">> \o w_the, w_the \o <<" ">> \o w_tee>>}

InitFfi ==
    /\ store \in FfiStores
    /\ corrections = EmptyCache
    /\ min_confidence = MIN_AUTO_APPLY_CONFIDENCE
    /\ last = NoCall
    /\ AlignIdle
    /\ before = [drawn |-> TRUE, store |-> store, corrections |-> EmptyCache]
    /\ ThreadsIdle
    /\ HostIdle

Unhosted == UNCHANGED <<align_vars, before, thread_vars>>

NextFfi ==
    \/ \E opened \in BOOLEAN, get_ok \in BOOLEAN : FlowwhisprInit(opened, get_ok) /\ Unhosted
    \/ \E edit \in FfiEdits, fail_at \in 0..1 :
           FlowwhisprLearnFromEdit(edit[1], edit[2], fail_at) /\ Unhosted
    \/ FlowwhisprCorrectionCount /\ Unhosted

SpecFfi == InitFfi /\ [][NextFfi]_vars

-----------------------------------------------------------------------------
(* WritingModeEngine, modes.rs, with the app modes of persistence.         *)

Apps == {"Slack", "Mail"}

(* Storage::save_app_mode: the mode kept for the app. *)
save_app_mode(st, app, mode) == insert(st, app, mode)

(* Storage::get_app_mode: Some(mode) when one is kept for the app. *)
get_app_mode(st, app) ==
    IF app \in DOMAIN st THEN [some |-> TRUE, mode |-> st[app]] ELSE [some |-> FALSE]

(* modes.rs:41-46. *)
get_mode(modes, default, app) == IF app \in DOMAIN modes THEN modes[app] ELSE default

GetMode(app) ==
    /\ last' = [op |-> "get_mode", app |-> app,
                result |-> get_mode(app_modes, default_mode, app)]
    /\ UNCHANGED <<default_mode, app_modes, app_mode_store, cleared>>

(* modes.rs:49-61; get_ok: Storage::get_app_mode returned Ok. *)
GetModeWithStorage(app, get_ok) ==
    /\ IF app \in DOMAIN app_modes
       THEN /\ last' = [op |-> "get_mode_with_storage", app |-> app,
                        result |-> app_modes[app]]
            /\ UNCHANGED app_modes
       ELSE IF get_ok /\ get_app_mode(app_mode_store, app).some
       THEN /\ app_modes' = insert(app_modes, app, get_app_mode(app_mode_store, app).mode)
            /\ last' = [op |-> "get_mode_with_storage", app |-> app,
                        result |-> get_app_mode(app_mode_store, app).mode]
       ELSE /\ last' = [op |-> "get_mode_with_storage", app |-> app,
                        result |-> default_mode]
            /\ UNCHANGED app_modes
    /\ UNCHANGED <<default_mode, app_mode_store, cleared>>

(* modes.rs:64-67. *)
SetMode(app, mode) ==
    /\ app_modes' = insert(app_modes, app, mode)
    /\ cleared' = cleared \ {app}
    /\ last' = [op |-> "set_mode", app |-> app, mode |-> mode]
    /\ UNCHANGED <<default_mode, app_mode_store>>

(* modes.rs:70-79; save_ok: Storage::save_app_mode returned Ok. *)
SetModeWithStorage(app, mode, save_ok) ==
    /\ app_modes' = insert(app_modes, app, mode)
    /\ app_mode_store' =
           IF save_ok THEN save_app_mode(app_mode_store, app, mode) ELSE app_mode_store
    /\ cleared' = cleared \ {app}
    /\ last' = [op |-> "set_mode_with_storage", app |-> app, mode |-> mode,
                ok |-> save_ok]
    /\ UNCHANGED default_mode

(* modes.rs:87-89. *)
SetDefaultMode(mode) ==
    /\ default_mode' = mode
    /\ last' = [op |-> "set_default_mode", mode |-> mode]
    /\ UNCHANGED <<app_modes, app_mode_store, cleared>>

(* modes.rs:92-94. *)
ClearMode(app) ==
    /\ app_modes' = remove(app_modes, app)
    /\ cleared' = cleared \cup {app}
    /\ last' = [op |-> "clear_mode", app |-> app]
    /\ UNCHANGED <<default_mode, app_mode_store>>

(* ffi.rs:366-372: the WritingMode of a mode code, None outside 0..3. *)
writing_mode(code) ==
    IF code = 0 THEN [some |-> TRUE, mode |-> "Formal"]
    ELSE IF code = 1 THEN [some |-> TRUE, mode |-> "Casual"]
    ELSE IF code = 2 THEN [some |-> TRUE, mode |-> "VeryCasual"]
    ELSE IF code = 3 THEN [some |-> TRUE, mode |-> "Excited"]
    ELSE [some |-> FALSE]

(* ffi.rs:403-408: the code of a WritingMode. *)
mode_code(mode) ==
    IF mode = "Formal" THEN 0
    ELSE IF mode = "Casual" THEN 1
    ELSE IF mode = "VeryCasual" THEN 2
    ELSE 3

(* The app name that is a null pointer or not UTF-8. *)
NullName == "(null)"

(* The mode codes flowwhispr_set_app_mode is called with. *)
ModeCodes == {0, 1, 3, 4}

(* ffi.rs:349-380: false for a null or non-UTF-8 app name and for a code   *)
(* outside 0..3, before the modes are touched; else                        *)
(* set_mode_with_storage, and false when it returns Err.                   *)
FlowwhisprSetAppMode(app, code, save_ok) ==
    /\ IF app = NullName \/ ~writing_mode(code).some
       THEN /\ last' = [op |-> "flowwhispr_set_app_mode", app |-> app,
                        code |-> code, ok |-> FALSE]
            /\ UNCHANGED <<app_modes, app_mode_store, cleared>>
       ELSE /\ app_modes' = insert(app_modes, app, writing_mode(code).mode)
            /\ app_mode_store' =
                   IF save_ok
                   THEN save_app_mode(app_mode_store, app, writing_mode(code).mode)
                   ELSE app_mode_store
            /\ cleared' = cleared \ {app}
            /\ last' = [op |-> "flowwhispr_set_app_mode", app |-> app,
                        code |-> code, ok |-> save_ok]
    /\ UNCHANGED default_mode

(* The mode get_mode_with_storage resolves (modes.rs:49-61). *)
resolve_mode(modes, st, default, app, get_ok) ==
    IF app \in DOMAIN modes THEN modes[app]
    ELSE IF get_ok /\ get_app_mode(st, app).some THEN get_app_mode(st, app).mode
    ELSE default

(* ffi.rs:385-409: 1 for a null or non-UTF-8 app name, else the code of    *)
(* get_mode_with_storage, which keeps a mode it loaded.                    *)
FlowwhisprGetAppMode(app, get_ok) ==
    /\ IF app = NullName
       THEN /\ last' = [op |-> "flowwhispr_get_app_mode", app |-> app, result |-> 1]
            /\ UNCHANGED app_modes
       ELSE /\ last' = [op |-> "flowwhispr_get_app_mode", app |-> app,
                        result |-> mode_code(resolve_mode(app_modes, app_mode_store,
                                                          default_mode, app, get_ok))]
            /\ app_modes' =
                   IF app \notin DOMAIN app_modes /\ get_ok
                          /\ get_app_mode(app_mode_store, app).some
                   THEN insert(app_modes, app, get_app_mode(app_mode_store, app).mode)
                   ELSE app_modes
    /\ UNCHANGED <<default_mode, app_mode_store, cleared>>

InitModes ==
    /\ corrections = EmptyCache
    /\ min_confidence = MIN_AUTO_APPLY_CONFIDENCE
    /\ store = EmptyStore
    /\ last = NoCall
    /\ AlignIdle
    /\ before = NoBefore
    /\ ThreadsIdle
    /\ HostIdle

ModesOnly == UNCHANGED <<corrections, min_confidence, store, align_vars, before,
                         thread_vars, handle>>

NextModes ==
    \/ \E app \in Apps : GetMode(app) /\ ModesOnly
    \/ \E app \in Apps, get_ok \in BOOLEAN : GetModeWithStorage(app, get_ok) /\ ModesOnly
    \/ \E app \in Apps, mode \in WritingModes : SetMode(app, mode) /\ ModesOnly
    \/ \E app \in Apps, mode \in WritingModes, save_ok \in BOOLEAN :
           SetModeWithStorage(app, mode, save_ok) /\ ModesOnly
    \/ \E mode \in WritingModes : SetDefaultMode(mode) /\ ModesOnly
    \/ \E app \in Apps : ClearMode(app) /\ ModesOnly
    \/ \E app \in Apps \cup {NullName}, code \in ModeCodes, save_ok \in BOOLEAN :
           FlowwhisprSetAppMode(app, code, save_ok) /\ ModesOnly
    \/ \E app \in Apps \cup {NullName}, get_ok \in BOOLEAN :
           FlowwhisprGetAppMode(app, get_ok) /\ ModesOnly

SpecModes == InitModes /\ [][NextModes]_vars

-----------------------------------------------------------------------------
(* Vocabulary of the claims about apply_corrections.                       *)

AfterApply == last.op = "apply_corrections"

InputTokens == split_whitespace(last.text)

OutputTokens == split_whitespace(last.result)

(* Two adjacent whitespace characters with a token before and after them. *)
HasWhitespaceRun(text) ==
    \E i \in 1..(Len(text) - 1) :
        /\ is_whitespace(text[i]) /\ is_whitespace(text[i + 1])
        /\ \E j \in 1..(i - 1) : ~is_whitespace(text[j])
        /\ \E j \in (i + 2)..Len(text) : ~is_whitespace(text[j])

(* No whitespace but single " " between two non-whitespace characters. *)
SingleSpaced(text) ==
    \A i \in 1..Len(text) :
        is_whitespace(text[i]) =>
            /\ text[i] = " "
            /\ 1 < i /\ i < Len(text)
            /\ ~is_whitespace(text[i - 1]) /\ ~is_whitespace(text[i + 1])

(* C6: with an empty cache apply_corrections returns the text as given,    *)
(* whitespace included, and an empty applied list.                         *)
C6_EmptyCacheIdentity ==
    (AfterApply /\ DOMAIN corrections = {}) =>
        (last.result = last.text /\ last.applied = <<>>)

C6_Witness ==
    /\ AfterApply /\ DOMAIN corrections = {}
    /\ HasWhitespaceRun(last.text)
    /\ last.text # join(InputTokens)

(* C7 as stated: in any cache state a text whose tokens are separated by   *)
(* runs of whitespace comes back with its tokens single-spaced.            *)
C7_Original ==
    (AfterApply /\ HasWhitespaceRun(last.text)) =>
        (SingleSpaced(last.result) /\ Len(OutputTokens) = Len(InputTokens))

(* C7 amended: the same in any non-empty cache state (the empty cache      *)
(* returns the text verbatim).                                             *)
C7_NonEmptyCacheSingleSpaced ==
    (AfterApply /\ HasWhitespaceRun(last.text) /\ DOMAIN corrections # {}) =>
        (SingleSpaced(last.result) /\ Len(OutputTokens) = Len(InputTokens))

C7_Witness ==
    /\ AfterApply /\ HasWhitespaceRun(last.text) /\ DOMAIN corrections # {}
    /\ last.applied = <<>>
    /\ last.result # last.text

(* The token indices (0-based) apply_corrections must rewrite. *)
EligibleIndices ==
    {i \in 0..(Len(InputTokens) - 1) :
        /\ to_lowercase(InputTokens[i + 1]) \in DOMAIN corrections
        /\ corrections[to_lowercase(InputTokens[i + 1])].confidence >= min_confidence}

(* C8: for a non-empty cache the output has as many tokens as the input,   *)
(* tokens that are not eligible cache keys stay unchanged at their index,  *)
(* and the applied list has one entry per rewritten token, in increasing   *)
(* position order, position the token index and original the input token.  *)
C8_TokenSequencePreserved ==
    (AfterApply /\ DOMAIN corrections # {}) =>
        /\ Len(OutputTokens) = Len(InputTokens)
        /\ \A i \in 0..(Len(InputTokens) - 1) :
               i \notin EligibleIndices => OutputTokens[i + 1] = InputTokens[i + 1]
        /\ Len(last.applied) = Cardinality(EligibleIndices)
        /\ {last.applied[n].position : n \in 1..Len(last.applied)} = EligibleIndices
        /\ \A n \in 1..(Len(last.applied) - 1) :
               last.applied[n].position < last.applied[n + 1].position
        /\ \A n \in 1..Len(last.applied) :
               /\ last.applied[n].original = InputTokens[last.applied[n].position + 1]
               /\ last.applied[n].corrected = OutputTokens[last.applied[n].position + 1]

C8_Witness ==
    /\ AfterApply /\ DOMAIN corrections # {}
    /\ Len(InputTokens) = 2
    /\ EligibleIndices = {1}
    /\ OutputTokens[2] # InputTokens[2]

-----------------------------------------------------------------------------
(* Vocabulary of the claims about align_words.                             *)

StepOrig == original_words[step.orig_idx + 1]

StepEdit == edited_words[step.edit_idx + 1]

StepSim == jaro_winkler(StepOrig, StepEdit)

OrigLookaheadImproves ==
    /\ step.orig_idx + 2 <= Len(original_words)
    /\ sim_gt(jaro_winkler(original_words[step.orig_idx + 2], StepEdit), StepSim)

EditLookaheadImproves ==
    /\ step.edit_idx + 2 <= Len(edited_words)
    /\ sim_gt(jaro_winkler(StepOrig, edited_words[step.edit_idx + 2]), StepSim)

StepPairable ==
    \/ to_lowercase(StepOrig) = to_lowercase(StepEdit)
    \/ sim_ge(StepSim, Sim(1, 2))

(* The last iteration was in the fallback case: the tokens neither equal   *)
(* nor similar, and neither or both lookaheads improve (one that does not  *)
(* exist does not improve).                                                *)
FallbackCase ==
    /\ step.taken
    /\ ~StepPairable
    /\ (OrigLookaheadImproves <=> EditLookaheadImproves)

BothAdvanced == orig_idx = step.orig_idx + 1 /\ edit_idx = step.edit_idx + 1

PairPushed == pairs = Append(step.pairs, <<StepOrig, StepEdit>>)

-----------------------------------------------------------------------------
(* Vocabulary of the claims about the engine.                              *)

AppliedPositions == {last.applied[n].position : n \in 1..Len(last.applied)}

(* C1: apply_corrections replaces a token if and only if its lowercased    *)
(* form is a cache key whose confidence is >= the minimum confidence at    *)
(* the time of the call, whatever calls set the cache and the minimum.     *)
C1_AppliedIffEligible ==
    AfterApply =>
        \A i \in 0..(Len(InputTokens) - 1) :
            LET key == to_lowercase(InputTokens[i + 1])
            IN (i \in AppliedPositions)
                   <=> (/\ key \in DOMAIN corrections
                        /\ corrections[key].confidence >= min_confidence)

(* An entry of confidence 0.5 under a minimum raised to 0.9 is not applied. *)
C1_Witness ==
    /\ AfterApply
    /\ min_confidence = 90
    /\ \E i \in 1..Len(InputTokens) :
           /\ to_lowercase(InputTokens[i]) \in DOMAIN corrections
           /\ corrections[to_lowercase(InputTokens[i])].confidence = 50
    /\ last.applied = <<>>

AfterLearn == last.op = "learn_from_edit"

(* C2: once the confidence persistence holds for a learned pair is >= the  *)
(* minimum confidence, learn_from_edit has written the cache entry, so     *)
(* that apply_corrections rewrites the original with no reload in between. *)
C2_Original ==
    (AfterLearn /\ last.ok) =>
        \A n \in 1..Len(last.learned) :
            LET key == <<to_lowercase(last.learned[n].original),
                         last.learned[n].corrected>>
            IN confidence_of(store[key]) >= min_confidence =>
                   /\ key[1] \in DOMAIN corrections
                   /\ corrections[key[1]].confidence >= min_confidence

(* The aligned pairs of the last learn_from_edit call that the claims      *)
(* count as accepted.                                                      *)
ClaimAccepted(p) ==
    /\ to_lowercase(p[1]) # to_lowercase(p[2])
    /\ sim_ge(jaro_winkler(p[1], p[2]), Sim(7, 10))
    /\ Len(p[1]) - Len(p[2]) \in {-1, 0, 1}

AcceptedPairs ==
    SelectSeq(align_words(split_whitespace(last.original),
                          split_whitespace(last.edited)), ClaimAccepted)

KeyOf(p) == <<to_lowercase(p[1]), p[2]>>

(* Occurrences of key in st, 0 when it holds no such correction. *)
Occurrences(st, key) == IF key \in DOMAIN st THEN st[key] ELSE 0

(* st is b after one upsert for each of the first n accepted pairs. *)
SavedUpTo(st, b, n) ==
    \A key \in DOMAIN st \cup DOMAIN b \cup {KeyOf(AcceptedPairs[i]) : i \in 1..n} :
        Occurrences(st, key)
            = Occurrences(b, key)
                  + Cardinality({i \in 1..n : KeyOf(AcceptedPairs[i]) = key})

(* C4: when the upsert of the k-th accepted pair fails the call returns    *)
(* the error, pairs 1..k-1 stay saved, no upsert follows, and the cache    *)
(* gets no entry from pair k or a later pair.                              *)
C4_FailureKeepsEarlierPairs ==
    (AfterLearn /\ ~last.ok) =>
        LET k == Len(last.calls)
        IN /\ k >= 1 /\ k <= Len(AcceptedPairs)
           /\ last.calls = [i \in 1..k |-> KeyOf(AcceptedPairs[i])]
           /\ SavedUpTo(store, before.store, k - 1)
           /\ \A o \in DOMAIN corrections \cup DOMAIN before.corrections :
                  \/ /\ o \in DOMAIN corrections /\ o \in DOMAIN before.corrections
                     /\ corrections[o] = before.corrections[o]
                  \/ /\ o \in DOMAIN corrections
                     /\ \E i \in 1..(k - 1) :
                            /\ KeyOf(AcceptedPairs[i])[1] = o
                            /\ corrections[o].corrected = AcceptedPairs[i][2]

C4_Witness ==
    /\ AfterLearn /\ ~last.ok
    /\ Len(last.calls) = 2
    /\ min_confidence = 0
    /\ KeyOf(AcceptedPairs[1])[1] # KeyOf(AcceptedPairs[2])[1]
    /\ KeyOf(AcceptedPairs[2])[1] \notin DOMAIN corrections

(* C9: a successful learn_from_edit accepts exactly the aligned pairs that *)
(* differ ignoring case, are similar >= 0.7 and differ in length by <= 1;  *)
(* it upserts once per accepted pair under (lowercase(original),           *)
(* corrected) and returns one LearnedCorrection per accepted pair, in      *)
(* order, promoted or not.                                                 *)
C9_AcceptedPairs ==
    (AfterLearn /\ last.ok) =>
        /\ last.calls = [i \in 1..Len(AcceptedPairs) |-> KeyOf(AcceptedPairs[i])]
        /\ SavedUpTo(store, before.store, Len(AcceptedPairs))
        /\ Len(last.learned) = Len(AcceptedPairs)
        /\ \A i \in 1..Len(AcceptedPairs) :
               /\ last.learned[i].original = AcceptedPairs[i][1]
               /\ last.learned[i].corrected = AcceptedPairs[i][2]

(* A pair accepted and saved under its lowercased original, not promoted,  *)
(* after a pair rejected for its length.                                   *)
C9_Witness ==
    /\ AfterLearn /\ last.ok
    /\ split_whitespace(last.original) = <<w_t, w_Thw>>
    /\ Len(last.learned) = 1
    /\ last.learned[1].original = w_Thw
    /\ min_confidence = MIN_AUTO_APPLY_CONFIDENCE
    /\ corrections = before.corrections
    /\ store # before.store

-----------------------------------------------------------------------------
(* Claims about threads calling into one engine (SpecConc).                *)

HoldsLock(t) == lock.writer = t \/ t \in lock.readers \/ local[t].own # "none"

(* C3: in every interleaving of learn_from_edit, reload_from_storage,      *)
(* from_storage and the cache-only calls, a thread inside save_correction  *)
(* or get_corrections holds no guard of the cache lock, read or write.     *)
C3_NoLockAcrossPersistence ==
    \A t \in Threads : pc[t] \in InPersistence => ~HoldsLock(t)

(* A thread is inside a persistence call while another holds a guard. *)
C3_Witness ==
    \E t, u \in Threads :
        /\ t # u
        /\ pc[t] \in InPersistence
        /\ lock.writer = u \/ u \in lock.readers

AfterReload == last.op = "reload_from_storage" /\ last.ok

Returned == {last.list[i] : i \in 1..Len(last.list)}

ReadsWholeCache == last.op = "read" => ~last.midway

(* C5 as stated: no reader sees the cache between the clear and the return *)
(* of a reload, and at the return the cache holds every correction         *)
(* persistence returned, under its lowercased original, and nothing else.  *)
C5_Original ==
    /\ ReadsWholeCache
    /\ AfterReload =>
           /\ DOMAIN last.cache = {to_lowercase(c.original) : c \in Returned}
           /\ \A c \in Returned :
                  last.cache[to_lowercase(c.original)] =
                      CachedCorrection(c.corrected, c.confidence)

(* The last position of the returned list whose original lowercases to k. *)
LastReturnedFor(k) ==
    CHOOSE i \in 1..Len(last.list) :
        /\ to_lowercase(last.list[i].original) = k
        /\ \A j \in 1..Len(last.list) :
               to_lowercase(last.list[j].original) = k => j <= i

(* C5, amended: no reader sees the cache between the clear and the return  *)
(* of a reload, and at the return the cache holds one entry per lowercased *)
(* original persistence returned at the engine's minimum confidence, the   *)
(* one of the last correction returned for it, and nothing else.           *)
C5_ReloadAtomicLastWins ==
    /\ ReadsWholeCache
    /\ AfterReload =>
           /\ \A c \in Returned : c.confidence >= min_confidence
           /\ DOMAIN last.cache = {to_lowercase(c.original) : c \in Returned}
           /\ \A k \in DOMAIN last.cache :
                  last.cache[k] =
                      CachedCorrection(last.list[LastReturnedFor(k)].corrected,
                                       last.list[LastReturnedFor(k)].confidence)

(* A reload returned a non-empty list while another call was under way,    *)
(* and an entry cached before it, not returned, is gone.                   *)
C5_Witness ==
    /\ AfterReload
    /\ last.list # <<>>
    /\ \E u \in Threads : pc[u] # "idle"
    /\ \E k \in DOMAIN before.corrections : k \notin DOMAIN last.cache
-----------------------------------------------------------------------------
(* Claims about match_case (SpecCase).                                     *)

AfterCase == last.op = "match_case"

(* The title-case pattern: first character uppercase, every later          *)
(* alphabetic character lowercase.                                         *)
TitlePattern(s) ==
    /\ s # <<>>
    /\ is_uppercase(s[1])
    /\ \A i \in 2..Len(s) : is_alphabetic(s[i]) => is_lowercase(s[i])

(* The all-caps pattern: every alphabetic character uppercase. *)
AllCapsPattern(s) == \A i \in 1..Len(s) : is_alphabetic(s[i]) => is_uppercase(s[i])

HasUppercase(s) == \E i \in 1..Len(s) : is_uppercase(s[i])

TitleCased(s) ==
    [i \in 1..Len(s) |-> IF i = 1 THEN char_to_uppercase(s[i]) ELSE char_to_lowercase(s[i])]

(* C11: for an original token with an uppercase letter, all of whose       *)
(* alphabetic characters are uppercase and which is not title case, also   *)
(* when its first character is not a letter, match_case returns the        *)
(* corrected token fully upper-cased.                                      *)
C11_Original ==
    (/\ AfterCase
     /\ HasUppercase(last.original)
     /\ AllCapsPattern(last.original)
     /\ ~TitlePattern(last.original))
        => last.result = to_uppercase(last.corrected)

(* C12: a title-case original gives the corrected token with its first     *)
(* character upper-cased and the rest lower-cased; an original that starts *)
(* with a lowercase letter, or is mixed case matching neither pattern,     *)
(* gives the corrected token unchanged.                                    *)
C12_TitleAndUnchanged ==
    AfterCase =>
        /\ TitlePattern(last.original) => last.result = TitleCased(last.corrected)
        /\ (\/ (last.original # <<>> /\ is_lowercase(last.original[1]))
            \/ (/\ last.original # <<>>
                /\ ~TitlePattern(last.original)
                /\ ~AllCapsPattern(last.original)))
               => last.result = last.corrected

(* A title-case original re-cased a corrected token of another casing. *)
C12_Witness ==
    /\ AfterCase
    /\ TitlePattern(last.original)
    /\ Len(last.original) > 1
    /\ last.corrected = <<"t", "H", "e">>
    /\ last.result = <<"T", "h", "e">>
-----------------------------------------------------------------------------
(* Claims about the host boundary (SpecFfi).                               *)

AfterInit == last.op = "flowwhispr_init"

(* C13: when get_corrections fails at construction, flowwhispr_init still  *)
(* returns a handle, and its engine has an empty cache: cache_size is 0.   *)
C13_LoadFailureGivesEmptyEngine ==
    (AfterInit /\ last.opened /\ ~last.get_ok)
        => handle = "live" /\ cache_size(corrections) = 0

(* The load failed on a store that holds a correction above the default    *)
(* minimum, and the host has a handle.                                     *)
C13_Witness ==
    /\ AfterInit /\ last.opened /\ ~last.get_ok
    /\ get_corrections(store, MIN_AUTO_APPLY_CONFIDENCE) # {}
    /\ handle = "live"
    /\ corrections = EmptyCache

(* The originals of the persisted corrections are pairwise distinct. *)
DistinctOriginals(st) ==
    \A k1, k2 \in DOMAIN st : k1[1] = k2[1] => k1 = k2

(* C15: on a handle that started from an empty store, after learn_from_edit *)
(* calls recorded n distinct pairs for n distinct originals,               *)
(* flowwhispr_correction_count returns n.                                  *)
C15_Original ==
    (/\ last.op = "flowwhispr_correction_count"
     /\ before.store = EmptyStore
     /\ DistinctOriginals(store))
        => last.count = Cardinality(DOMAIN store)
-----------------------------------------------------------------------------
(* Claims about the writing modes (SpecModes).                             *)

(* C14: after clear_mode(app) and until a mode is set for it again, the    *)
(* mode resolved for the app is the default mode, through get_mode and     *)
(* through get_mode_with_storage, also when a mode had been persisted.     *)
C14_Original ==
    (/\ last.op \in {"get_mode", "get_mode_with_storage"}
     /\ last.app \in cleared)
        => last.result = default_mode

SetFailed(call) ==
    /\ call.op \in {"set_mode_with_storage", "flowwhispr_set_app_mode"}
    /\ ~call.ok

(* C29 as stated: a set_mode_with_storage / flowwhispr_set_app_mode that   *)
(* fails leaves the mode get_mode resolves for the app as it was before    *)
(* the call, and a mode code outside 0..3 changes neither the in-memory    *)
(* nor the persisted modes.                                                *)
C29_Original ==
    [][SetFailed(last') =>
           /\ get_mode(app_modes', default_mode', last'.app)
                  = get_mode(app_modes, default_mode, last'.app)
           /\ (last'.op = "flowwhispr_set_app_mode" /\ ~writing_mode(last'.code).some) =>
                  (app_modes' = app_modes /\ app_mode_store' = app_mode_store)]_vars
-----------------------------------------------------------------------------
(* Claims about the order of save and cache write (SpecConc).              *)

(* The positions of the cache step of learn_from_edit. *)
InCacheStep == {"learn_write", "learn_insert", "learn_drop"}

CurrentKey(t) ==
    <<to_lowercase(local[t].prs[local[t].i][1]), local[t].prs[local[t].i][2]>>

(* A thread in the cache step of a pair has that pair saved. *)
SavedBeforeCached ==
    \A t \in Threads : pc[t] \in InCacheStep => CurrentKey(t) \in DOMAIN store

(* A save is entered from the loop head only, with no guard held, and the  *)
(* cache step is entered only by the return of the save of the same pair.  *)
SaveAfterCacheStep ==
    \A t \in Threads :
        /\ (pc'[t] = "save_correction" /\ pc[t] # "save_correction")
               => pc[t] = "learn_loop" /\ lock.writer # t
        /\ (pc'[t] \in InCacheStep /\ pc[t] \notin InCacheStep)
               => /\ pc[t] = "save_correction"
                  /\ local'[t].i = local[t].i
                  /\ CurrentKey(t) \in DOMAIN store'

(* What a reader finds in the cache and was not there at the start is      *)
(* saved in persistence.                                                   *)
ReadsOnlySaved ==
    last.op = "read" =>
        \A k \in DOMAIN last.cache :
            (k \notin DOMAIN before.corrections \/ last.cache[k] # before.corrections[k])
                => <<k, last.cache[k].corrected>> \in DOMAIN store

(* C16: in learn_from_edit the cache write of a pair comes after its       *)
(* upsert returned Ok, the upsert of the next pair starts after the cache  *)
(* step of the pair before, and no reader sees a cache entry of a pair     *)
(* that is not saved.                                                      *)
C16_SaveThenCache ==
    /\ [](SavedBeforeCached /\ ReadsOnlySaved)
    /\ [][SaveAfterCacheStep]_vars

(* A reader found an entry that learn_from_edit wrote in this run. *)
C16_Witness ==
    /\ last.op = "read"
    /\ before.store = EmptyStore
    /\ \E k \in DOMAIN last.cache : k \notin DOMAIN before.corrections
-----------------------------------------------------------------------------
(* Claims about the agreement of cache and persistence (Spec).             *)

(* The persisted pair a cache entry stands for. *)
CachedKey(k) == <<k, corrections[k].corrected>>

(* C17: after any sequence of learn_from_edit and reload_from_storage      *)
(* calls, every cached pair is persisted and its cached confidence is the  *)
(* confidence derived from its persisted occurrence count.                 *)
C17_Original ==
    \A k \in DOMAIN corrections :
        /\ CachedKey(k) \in DOMAIN store
        /\ corrections[k].confidence = confidence_of(store[CachedKey(k)])
(* The persisted corrections of the lowercase original k that qualify at   *)
(* the minimum confidence.                                                 *)
Qualifying(k) ==
    {key \in DOMAIN store :
        key[1] = k /\ confidence_of(store[key]) >= min_confidence}

(* C18: when persistence holds several corrections for one lowercase       *)
(* original, the corrected text cached for it is that of a qualifying      *)
(* persisted correction of the highest confidence.                         *)
C18_Original ==
    \A k \in DOMAIN corrections :
        Cardinality({key \in DOMAIN store : key[1] = k}) > 1
            => /\ CachedKey(k) \in Qualifying(k)
               /\ \A key \in Qualifying(k) :
                      confidence_of(store[key]) <= confidence_of(store[CachedKey(k)])
-----------------------------------------------------------------------------
(* Claims about the keys of the cache (Spec).                              *)

HasNoUppercase(s) == \A i \in 1..Len(s) : ~is_uppercase(s[i])

(* The cache holds an entry for the word in some casing. *)
CachedInSomeCasing(word) ==
    \E k \in DOMAIN corrections : eq_ignore_ascii_case(k, word)

(* C19: in every state reached through from_storage, learn_from_edit,      *)
(* reload_from_storage, remove_from_cache and clear_cache every cache key  *)
(* is lowercase, and has_correction, get_correction, remove_from_cache and *)
(* the lookup of apply_corrections answer alike for every casing of a word. *)
C19_LowercaseKeys ==
    /\ \A k \in DOMAIN corrections : HasNoUppercase(k)
    /\ \A w \in Words : has_correction(corrections, w) <=> CachedInSomeCasing(w)
    /\ \A w, v \in Words :
           eq_ignore_ascii_case(w, v) =>
               /\ has_correction(corrections, w) = has_correction(corrections, v)
               /\ get_correction(corrections, min_confidence, w)
                      = get_correction(corrections, min_confidence, v)
               /\ remove(corrections, to_lowercase(w)) = remove(corrections, to_lowercase(v))
               /\ eligible(corrections, min_confidence, to_lowercase(w))
                      = eligible(corrections, min_confidence, to_lowercase(v))
    /\ last.op = "has_correction" => (last.result <=> CachedInSomeCasing(last.word))

(* has_correction found, for an upper-case word, the entry learned from a  *)
(* capitalised original.                                                   *)
C19_Witness ==
    /\ last.op = "has_correction"
    /\ last.word = w_THW
    /\ last.result
    /\ <<w_thw, w_Thy>> \in DOMAIN store
    /\ corrections[w_thw].corrected = w_Thy
-----------------------------------------------------------------------------
(* Claims about the pairs of align_words (SpecAlign).                      *)

(* C20: the pairs align_words returns are monotonic and non-repeating: the *)
(* positions of successive pairs strictly increase on both sides, so every *)
(* token is in at most one pair; there are at most min(len(original),      *)
(* len(edited)) pairs, and none when either sequence is empty.             *)
C20_MonotonicPairs ==
    /\ Len(step.at) = Len(pairs)
    /\ \A i \in 1..Len(pairs) :
           /\ step.at[i][1] < Len(original_words) /\ step.at[i][2] < Len(edited_words)
           /\ pairs[i] = <<original_words[step.at[i][1] + 1],
                           edited_words[step.at[i][2] + 1]>>
    /\ \A i, j \in 1..Len(pairs) :
           i < j => step.at[i][1] < step.at[j][1] /\ step.at[i][2] < step.at[j][2]
    /\ Len(pairs) <= Min(Len(original_words), Len(edited_words))
    /\ Len(align_words(original_words, edited_words))
           <= Min(Len(original_words), Len(edited_words))
    /\ (original_words = <<>> \/ edited_words = <<>>)
           => align_words(original_words, edited_words) = <<>>
    /\ ~align_running(original_words, edited_words, AlignState(orig_idx, edit_idx, pairs))
           => pairs = align_words(original_words, edited_words)

(* The loop ended after skipping an original token and pairing the next. *)
C20_Witness ==
    /\ Len(original_words) = 2 /\ Len(edited_words) = 1
    /\ orig_idx = 2 /\ edit_idx = 1
    /\ step.at = <<<<1, 0>>>>
    /\ pairs = <<<<original_words[2], edited_words[1]>>>>
-----------------------------------------------------------------------------
(* Claims about lookups and about what each call changes (Spec).           *)

(* The cache holds an entry for the lowercased word at or above the        *)
(* minimum.                                                                *)
HeldAboveMinimum(word) ==
    \E k \in DOMAIN corrections :
        /\ k = to_lowercase(word)
        /\ corrections[k].confidence >= min_confidence

(* C23: get_correction(word) is Some(corrected) exactly when the cache     *)
(* holds an entry for lowercase(word) with confidence >= the minimum,      *)
(* which is exactly when apply_corrections rewrites the word; a Some       *)
(* implies has_correction(word).                                           *)
C23_GatedLookup ==
    last.op = "get_correction" =>
        /\ last.result.some <=> HeldAboveMinimum(last.word)
        /\ HeldAboveMinimum(last.word)
               <=> Len(apply_corrections(corrections, min_confidence, last.word).applied) = 1
        /\ last.result.some =>
               /\ last.result.corrected = corrections[to_lowercase(last.word)].corrected
               /\ apply_corrections(corrections, min_confidence, last.word).result
                      = match_case(last.result.corrected, last.word)
               /\ has_correction(corrections, last.word)

(* get_correction returned None for a word has_correction finds. *)
C23_Witness ==
    /\ last.op = "get_correction"
    /\ ~last.result.some
    /\ has_correction(corrections, last.word)
    /\ apply_corrections(corrections, min_confidence, last.word).applied = <<>>

ReloadFailed(call) == call.op = "reload_from_storage" /\ ~call.ok

(* C28: a reload_from_storage whose get_corrections fails returns the      *)
(* error and leaves the cache, the minimum and persistence as they were.   *)
C28_FailedReloadKeepsCache ==
    [][ReloadFailed(last') =>
           /\ corrections' = corrections
           /\ min_confidence' = min_confidence
           /\ store' = store]_vars

(* A reload failed over a cache that holds an entry. *)
C28_Witness ==
    /\ ReloadFailed(last)
    /\ cache_size(corrections) > 0

(* The keys of the pairs of an edit that learn_from_edit accepts. *)
AcceptedKeys(original, edited) ==
    LET prs == align_words(split_whitespace(original), split_whitespace(edited))
    IN {to_lowercase(prs[i][1]) : i \in {j \in DOMAIN prs : accepts(prs[j][1], prs[j][2])}}

(* The keys whose entry differs between two caches. *)
ChangedKeys(c1, c2) ==
    {k \in DOMAIN c1 \cup DOMAIN c2 :
        ~(k \in DOMAIN c1 /\ k \in DOMAIN c2 /\ c1[k] = c2[k])}

ReadOnlyOps ==
    {"apply_corrections", "has_correction", "get_correction",
     "get_all_corrections", "cache_size"}

FrameOfCall ==
    /\ last'.op \in ReadOnlyOps =>
           corrections' = corrections /\ min_confidence' = min_confidence
    /\ last'.op = "learn_from_edit" =>
           /\ DOMAIN corrections \subseteq DOMAIN corrections'
           /\ cache_size(corrections') >= cache_size(corrections)
           /\ ChangedKeys(corrections, corrections')
                  \subseteq AcceptedKeys(last'.original, last'.edited)
    /\ last'.op = "remove_from_cache" =>
           /\ ChangedKeys(corrections, corrections') \subseteq {to_lowercase(last'.original)}
           /\ DOMAIN corrections' \subseteq DOMAIN corrections
    /\ last'.op = "set_min_confidence" => corrections' = corrections

(* C24: apply_corrections, has_correction, get_correction,                 *)
(* get_all_corrections and cache_size change neither the cache nor the     *)
(* minimum; learn_from_edit only inserts or overwrites keys of its         *)
(* accepted pairs and removes none; remove_from_cache changes at most the  *)
(* key it names; set_min_confidence leaves the cache as it was.            *)
C24_Frames == [][FrameOfCall]_vars

(* remove_from_cache took one of two cached keys and left the other. *)
C24_Witness ==
    /\ last.op = "remove_from_cache"
    /\ to_lowercase(last.original) = w_thw
    /\ DOMAIN corrections = {w_the}

-----------------------------------------------------------------------------
(* Claims about position-wise alignment and termination (SpecAlign).       *)

Pairable(orig, edit) ==
    eq_ignore_ascii_case(orig, edit) \/ sim_ge(jaro_winkler(orig, edit), Sim(1, 2))

(* The sequences have one length and every position holds pairable tokens. *)
PositionwisePairable ==
    /\ Len(original_words) = Len(edited_words)
    /\ \A k \in 1..Len(original_words) : Pairable(original_words[k], edited_words[k])

Positionwise(n) == [k \in 1..n |-> <<original_words[k], edited_words[k]>>]

AlignNow == AlignState(orig_idx, edit_idx, pairs)

(* The iteration from the current state gives the same result when the     *)
(* tokens after the current ones are cut off.                              *)
LookaheadUnused ==
    align_running(original_words, edited_words, AlignNow) =>
        align_iteration(SubSeq(original_words, 1, orig_idx + 1),
                        SubSeq(edited_words, 1, edit_idx + 1), AlignNow)
            = align_iteration(original_words, edited_words, AlignNow)

(* C21: for sequences of one length n whose positions all hold tokens      *)
(* equal ignoring case or of similarity >= 0.5, align_words returns the n  *)
(* position-wise pairs in order, and no iteration depends on a lookahead   *)
(* token.                                                                  *)
C21_PositionwisePairs ==
    PositionwisePairable =>
        /\ align_words(original_words, edited_words) = Positionwise(Len(original_words))
        /\ orig_idx = edit_idx
        /\ pairs = Positionwise(orig_idx)
        /\ LookaheadUnused

(* Both positions were paired although the second original token is        *)
(* closer to the first edited token than the first original token is.      *)
C21_Witness ==
    /\ original_words = <<w_thw, w_the>>
    /\ edited_words = <<w_the, w_THE>>
    /\ sim_gt(jaro_winkler(original_words[2], edited_words[1]),
              jaro_winkler(original_words[1], edited_words[1]))
    /\ orig_idx = 2 /\ edit_idx = 2
    /\ pairs = <<<<w_thw, w_the>>, <<w_the, w_THE>>>>

(* An iteration moves no cursor back and moves at least one forward. *)
CursorsAdvance ==
    /\ orig_idx' >= orig_idx
    /\ edit_idx' >= edit_idx
    /\ orig_idx' + edit_idx' > orig_idx + edit_idx

AlignDone == ~align_running(original_words, edited_words, AlignNow)

(* C22: align_words terminates: every iteration advances at least one      *)
(* cursor and none moves back, there are at most len(original) +           *)
(* len(edited) iterations, and the loop ends.                              *)
C22_Terminates ==
    /\ [][CursorsAdvance]_vars
    /\ [](step.n <= orig_idx + edit_idx
           /\ step.n <= Len(original_words) + Len(edited_words))
    /\ <>[]AlignDone

(* The loop ended after two iterations, one of which skipped a token. *)
C22_Witness ==
    /\ AlignDone
    /\ step.n = 2
    /\ Len(pairs) = 1
    /\ orig_idx + edit_idx = 3
-----------------------------------------------------------------------------
(* Claims about calls running side by side (SpecConc).                     *)

(* C25: an apply_corrections call beside writers returns what applying its *)
(* text against one cache state gives, the state the cache had when the    *)
(* call took its read guard; every token is looked up in that state.       *)
C25_OneCacheState ==
    /\ last.op = "apply_corrections" =>
           last.result = apply_corrections(last.seen, min_confidence, last.text).result
    /\ \A t \in Threads :
           pc[t] \in {"apply_check", "apply_loop", "apply_drop"} =>
               corrections = local[t].seen

(* apply_corrections is between its two tokens while a learn_from_edit     *)
(* that saved its correction waits for the write guard.                    *)
C25_Witness ==
    \E t \in Threads, u \in Threads :
        /\ pc[t] = "apply_loop" /\ local[t].i = 1
        /\ pc[u] = "learn_write" /\ ~can_write(u)

(* The guards thread t holds: of the shared cache, and of the cache of an  *)
(* engine it is building in from_storage.                                  *)
LocksHeld(t) ==
    (IF lock.writer = t THEN 1 ELSE 0)
        + (IF t \in lock.readers THEN 1 ELSE 0)
        + (IF local[t].own # "none" THEN 1 ELSE 0)

(* A call is under way on thread t. *)
InCall(t) == pc[t] # "idle"

SomeCallUnderWay == \E t \in Threads : InCall(t)

(* Some call under way can take its next step: the calls are not all       *)
(* waiting for each other.                                                 *)
SomeCallCanStep ==
    \E t \in Threads : ENABLED ((Continue(t) \/ Acquire(t)) /\ Unshared)

(* C26: no thread holds more than one cache lock at a time, the calls      *)
(* under way never all wait for each other, and with persistence           *)
(* answering and a fair lock every call under way returns, whatever the    *)
(* other threads call.                                                     *)
C26_EveryCallReturns ==
    /\ [](\A t \in Threads : LocksHeld(t) <= 1)
    /\ [](SomeCallUnderWay => SomeCallCanStep)
    /\ \A t \in Threads : InCall(t) ~> ~InCall(t)

(* A learn_from_edit waits for the write guard while a reload holds it. *)
C26_Witness ==
    \E t \in Threads, u \in Threads :
        /\ pc[t] = "learn_write" /\ ~can_write(t)
        /\ lock.writer = u /\ pc[u] \in ReloadMidway

(* The corrections persistence would return at the minimum, as             *)
(* (original, corrected) pairs.                                            *)
PersistedAboveMinimum ==
    LET held == get_corrections(store, min_confidence)
    IN {<<c.original, c.corrected>> : c \in held}

(* C27 as stated: once one learn_from_edit and one reload_from_storage     *)
(* running side by side have both returned Ok, every correction the learn  *)
(* inserted into the cache and persistence holds at or above the minimum   *)
(* still has its entry in the cache.                                       *)
C27_Original ==
    (before.learn = "ok" /\ before.reload = "ok") =>
        \A c \in before.inserted \cap PersistedAboveMinimum :
            to_lowercase(c[1]) \in DOMAIN corrections
-----------------------------------------------------------------------------
(* Claims about the single pass of apply_corrections (SpecApply).          *)

Positions(applied) == {applied[i].position : i \in DOMAIN applied}

(* Word w has an applicable entry whose replacement has one too. *)
Chained(w) ==
    /\ eligible(corrections, min_confidence, to_lowercase(w))
    /\ eligible(corrections, min_confidence,
                to_lowercase(match_case(corrections[to_lowercase(w)].corrected, w)))

(* The tokens of the result against the tokens tokens_in of the text: each *)
(* is its token as given or the one replacement of it, and applying the    *)
(* corrections to the result rewrites only positions rewritten before.     *)
SinglePass(tokens_in, tokens_out, applied, again) ==
    /\ Len(tokens_out) = Len(tokens_in)
    /\ \A k \in 1..Len(tokens_in) :
           tokens_out[k] =
               IF eligible(corrections, min_confidence, to_lowercase(tokens_in[k]))
               THEN match_case(corrections[to_lowercase(tokens_in[k])].corrected,
                               tokens_in[k])
               ELSE tokens_in[k]
    /\ Cardinality(Positions(applied)) = Len(applied)
    /\ Positions(again.applied) \subseteq Positions(applied)
    /\ \A p \in Positions(again.applied) : Chained(tokens_in[p + 1])

(* C30: apply_corrections rewrites each token at most once: a replacement  *)
(* is not looked up again, so with entries a -> b and b -> c a token a     *)
(* gives b; applied to its own result it rewrites only tokens that were    *)
(* replaced by a word that has an entry itself.                            *)
C30_SinglePass ==
    last.op = "apply_corrections" =>
        SinglePass(split_whitespace(last.text), split_whitespace(last.result),
                   last.applied,
                   apply_corrections(corrections, min_confidence, last.result))

(* thw -> the and the -> tee both apply: thw gave the, and the result      *)
(* applied again gives tee.                                                *)
C30_Witness ==
    /\ last.op = "apply_corrections"
    /\ last.text = w_thw
    /\ Chained(w_thw)
    /\ last.result = w_the
    /\ apply_corrections(corrections, min_confidence, last.result).result = w_tee

====
